---- MODULE Spec2Model ----
(***************************************************************************)
(* A model of the template engine of github.com/lifei6671/i18n: the parser *)
(* (ParseTemplate, parsePlaceholder), the value resolver (getValueByPath), *)
(* the formatter registry, the evaluator (Node.Eval, TemplateAST.Eval),    *)
(* the AST cache of RenderTemplate and the validator (ValidateTemplate).   *)
(*                                                                         *)
(* A Go string is a sequence of bytes.  A byte is written as a one         *)
(* character TLA+ string when it is ASCII ("{", "x", " "), and as the two  *)
(* hex digits of its value when it is not ("C2", "A5", "EF", "BF", "BD"),  *)
(* so that the yen sign of the repository's tests is <<"C2", "A5">> and a  *)
(* lone "C2" is a string that is not valid UTF-8.                          *)
(***************************************************************************)
EXTENDS Integers, Sequences, FiniteSets, TLC

---------------------------------------------------------------------------
(* Bounds of the model.                                                    *)

\* Longest template that SpecPure enumerates exhaustively over Alphabet.
MaxTplLen == 3

---------------------------------------------------------------------------
(* Strings                                                                 *)

NonASCII == {"C2", "A5", "EF", "BF", "BD"}
ContBytes == {"A5", "BF", "BD"}

IsASCII(b) == b \notin NonASCII

\* The encoding of U+FFFD, which the conversion to runes puts in the place
\* of every byte that is not part of a valid encoding.
RuneError == <<"EF", "BF", "BD">>

\* []rune(s): a rune is written as its UTF-8 encoding.
RECURSIVE Runes(_)
Runes(s) ==
    IF s = <<>> THEN <<>>
    ELSE IF IsASCII(s[1]) THEN <<(<<s[1]>>)>> \o Runes(Tail(s))
    ELSE IF /\ s[1] = "C2"
            /\ Len(s) >= 2
            /\ s[2] \in ContBytes
         THEN <<SubSeq(s, 1, 2)>> \o Runes(SubSeq(s, 3, Len(s)))
    ELSE IF /\ s[1] = "EF"
            /\ Len(s) >= 3
            /\ s[2] \in ContBytes
            /\ s[3] \in ContBytes
         THEN <<SubSeq(s, 1, 3)>> \o Runes(SubSeq(s, 4, Len(s)))
    ELSE <<RuneError>> \o Runes(Tail(s))

\* string(runes) and bytes.Buffer.WriteRune over a run of runes.
RECURSIVE RunesToString(_)
RunesToString(rs) ==
    IF rs = <<>> THEN <<>> ELSE rs[1] \o RunesToString(Tail(rs))

LBrace == <<"{">>
RBrace == <<"}">>

\* unicode.IsSpace on the bytes of the model.
IsSpace(b) == b \in {" ", "\t"}

\* strings.TrimSpace
TrimSpace(s) ==
    LET keep == {i \in 1..Len(s) : ~IsSpace(s[i])}
    IN  IF keep = {} THEN <<>>
        ELSE LET lo == CHOOSE i \in keep : \A k \in keep : i <= k
                 hi == CHOOSE i \in keep : \A k \in keep : i >= k
             IN  SubSeq(s, lo, hi)

\* strings.Contains(s, c) for a one byte separator.
Contains(s, c) == \E i \in 1..Len(s) : s[i] = c

\* strings.Index(s, c) + 1, or 0.
IndexOf(s, c) ==
    IF Contains(s, c)
    THEN CHOOSE i \in 1..Len(s) : s[i] = c /\ \A k \in 1..(i - 1) : s[k] # c
    ELSE 0

\* strings.Split(s, c)
RECURSIVE Split(_, _)
Split(s, c) ==
    LET i == IndexOf(s, c)
    IN  IF i = 0 THEN <<s>>
        ELSE <<SubSeq(s, 1, i - 1)>> \o Split(SubSeq(s, i + 1, Len(s)), c)

\* strings.SplitN(s, c, 2)
SplitN2(s, c) ==
    LET i == IndexOf(s, c)
    IN  IF i = 0 THEN <<s>>
        ELSE <<SubSeq(s, 1, i - 1), SubSeq(s, i + 1, Len(s))>>

\* strings.HasPrefix / strings.TrimPrefix
HasPrefix(s, p) == Len(p) <= Len(s) /\ SubSeq(s, 1, Len(p)) = p
TrimPrefix(s, p) == IF HasPrefix(s, p) THEN SubSeq(s, Len(p) + 1, Len(s)) ELSE s

\* strings.ReplaceAll(s, c, "")
RemoveAll(s, c) == SelectSeq(s, LAMBDA b : b # c)

---------------------------------------------------------------------------
(* AST                                                                     *)

TextNode(text) == [kind |-> "TextNode", Text |-> text]

\* A nil *Conditional.
NilCond == [nil |-> TRUE]

Conditional(op, test, t, f) ==
    [nil |-> FALSE, Op |-> op, TestValue |-> test, TrueExpr |-> t, FalseExpr |-> f]

Formatter(name, arg) == [Name |-> name, Arg |-> arg]

PlaceholderNode(path, fs, cond) ==
    [kind |-> "PlaceholderNode", Path |-> path, Formatters |-> fs, Cond |-> cond]

IsPlaceholder(node) == node.kind = "PlaceholderNode"

---------------------------------------------------------------------------
(* Placeholder parser                                                      *)

\* parseFormatterSegment
parseFormatterSegment(seg) ==
    LET ff == SplitN2(seg, ":")
    IN  Formatter(TrimSpace(ff[1]), IF Len(ff) > 1 THEN TrimSpace(ff[2]) ELSE <<>>)

\* parseConditional whose true branch is the segment twice over.
parseConditionalDoubled(expr) ==
    LET q == SplitN2(expr, "?")
    IN  IF Len(q) # 2 THEN [ok |-> FALSE, cond |-> NilCond]
        ELSE LET tf == SplitN2(q[2], ":")
                 condKV == SplitN2(q[1], ":")
             IN  IF Len(tf) # 2 THEN [ok |-> FALSE, cond |-> NilCond]
                 ELSE IF Len(condKV) # 2 THEN [ok |-> FALSE, cond |-> NilCond]
                 ELSE [ok |-> TRUE,
                       cond |-> Conditional(TrimSpace(condKV[1]), TrimSpace(condKV[2]),
                                            expr \o expr, TrimSpace(tf[2]))]

\* parseConditional: called only on a segment that holds a "?".
parseConditional(expr) ==
    LET q == SplitN2(expr, "?")
    IN  IF Len(q) # 2 THEN [ok |-> FALSE, cond |-> NilCond]
        ELSE LET tf == SplitN2(q[2], ":")
                 condKV == SplitN2(q[1], ":")
             IN  IF Len(tf) # 2 THEN [ok |-> FALSE, cond |-> NilCond]
                 ELSE IF Len(condKV) # 2 THEN [ok |-> FALSE, cond |-> NilCond]
                 ELSE [ok |-> TRUE,
                       cond |-> Conditional(TrimSpace(condKV[1]), TrimSpace(condKV[2]),
                                            TrimSpace(tf[1]), TrimSpace(tf[2]))]

\* The loop of parsePlaceholder over parts[i..], ph being the node so far.
RECURSIVE parseSegments(_, _, _)
parseSegments(parts, i, ph) ==
    IF i > Len(parts) THEN [ok |-> TRUE, node |-> ph]
    ELSE LET seg == TrimSpace(parts[i])
         IN  IF seg = <<>> THEN [ok |-> FALSE, node |-> ph]
             ELSE IF Contains(seg, "?")
             THEN LET c == parseConditional(seg)
                  IN  IF ~c.ok THEN [ok |-> FALSE, node |-> ph]
                      ELSE parseSegments(parts, i + 1, [ph EXCEPT !.Cond = c.cond])
             ELSE LET f == parseFormatterSegment(seg)
                  IN  IF f.Name = <<>> THEN [ok |-> FALSE, node |-> ph]
                      ELSE parseSegments(parts, i + 1,
                               [ph EXCEPT !.Formatters = Append(@, f)])

\* parsePlaceholder(expr): ok is "err == nil".
parsePlaceholder(expr) ==
    LET e == TrimSpace(expr)
    IN  IF e = <<>> THEN [ok |-> FALSE, node |-> PlaceholderNode(<<>>, <<>>, NilCond)]
        ELSE LET parts == Split(e, "|")
             IN  parseSegments(parts, 2,
                     PlaceholderNode(TrimSpace(parts[1]), <<>>, NilCond))

---------------------------------------------------------------------------
(* Template parser                                                         *)

\* The inner loop of ParseTemplate: from j with the given depth to the rune
\* after the matching "}", or to the end.
RECURSIVE scanBraces(_, _, _)
scanBraces(runes, j, depth) ==
    IF j <= Len(runes) /\ depth > 0
    THEN scanBraces(runes, j + 1,
             IF runes[j] = LBrace THEN depth + 1
             ELSE IF runes[j] = RBrace THEN depth - 1
             ELSE depth)
    ELSE [j |-> j, depth |-> depth]

FlushText(nodes, buf) == IF Len(buf) > 0 THEN Append(nodes, TextNode(buf)) ELSE nodes

\* The outer loop of ParseTemplate at rune i (from 1), with the nodes and the
\* text buffer so far.
RECURSIVE parseLoop(_, _, _, _)
parseLoop(runes, i, nodes, buf) ==
    IF i > Len(runes) THEN FlushText(nodes, buf)
    ELSE IF runes[i] # LBrace THEN parseLoop(runes, i + 1, nodes, buf \o runes[i])
    ELSE LET flushed == FlushText(nodes, buf)
             sc == scanBraces(runes, i + 1, 1)
         IN  IF sc.depth # 0
             THEN parseLoop(runes, i + 1, flushed, runes[i])
             ELSE LET raw == RunesToString(SubSeq(runes, i + 1, sc.j - 2))
                      ph == parsePlaceholder(raw)
                  IN  IF ~ph.ok
                      THEN parseLoop(runes, sc.j, flushed, <<"{">> \o raw \o <<"}">>)
                      ELSE parseLoop(runes, sc.j, Append(flushed, ph.node), <<>>)

\* ParseTemplate(tpl): the error it returns is always nil.
ParseTemplate(tpl) == parseLoop(Runes(tpl), 1, <<>>, <<>>)

---------------------------------------------------------------------------
(* Values of type any                                                      *)
(*                                                                         *)
(* A number is n/d with d a power of ten; its Go type is the tag.  The     *)
(* numbers of the model are exact in float64 (and in float32 when that is  *)
(* their type), so the conversions float64(t) of the code keep the value.  *)

NumTypes == {"int", "int64", "float32", "float64"}

IntV(n) == [t |-> "int", n |-> n, d |-> 1]
Int64V(n) == [t |-> "int64", n |-> n, d |-> 1]
Float64V(n, d) == [t |-> "float64", n |-> n, d |-> d]
Float32V(n, d) == [t |-> "float32", n |-> n, d |-> d]
StrV(s) == [t |-> "string", s |-> s]
BoolV(b) == [t |-> "bool", b |-> b]
\* A nil interface value.
NilV == [t |-> "nil"]
\* A time.Time at midnight UTC.
TimeV(y, m, d) == [t |-> "time", year |-> y, month |-> m, day |-> d]
\* map[string]any; m is a function from keys to values.
MapV(m) == [t |-> "map", m |-> m]
EmptyMap == MapV([k \in {} |-> NilV])
\* A struct value: its fields in declaration order, none embedded.
Field(name, val) == [name |-> name, val |-> val]
StructV(fields) == [t |-> "struct", fields |-> fields]
\* A pointer to a value of type `to`; a nil pointer has no element.
PtrV(v) == [t |-> "ptr", to |-> v.t, isNil |-> FALSE, elem |-> v]
NilPtr(to) == [t |-> "ptr", to |-> to, isNil |-> TRUE, elem |-> NilV]

IsNum(v) == v.t \in NumTypes

---------------------------------------------------------------------------
(* Letters and digits                                                      *)

LowerLetters ==
    <<"a", "b", "c", "d", "e", "f", "g", "h", "i", "j", "k", "l", "m",
      "n", "o", "p", "q", "r", "s", "t", "u", "v", "w", "x", "y", "z">>
UpperLetters ==
    <<"A", "B", "C", "D", "E", "F", "G", "H", "I", "J", "K", "L", "M",
      "N", "O", "P", "Q", "R", "S", "T", "U", "V", "W", "X", "Y", "Z">>
Digits == <<"0", "1", "2", "3", "4", "5", "6", "7", "8", "9">>

IsLower(b) == \E i \in 1..26 : LowerLetters[i] = b
IsUpper(b) == \E i \in 1..26 : UpperLetters[i] = b
IsDigit(b) == \E i \in 1..10 : Digits[i] = b
DigitVal(b) == (CHOOSE i \in 1..10 : Digits[i] = b) - 1

\* unicode.ToUpper / unicode.ToLower on one rune (given as its encoding).
ToUpperRune(r) ==
    IF Len(r) = 1 /\ IsLower(r[1])
    THEN <<UpperLetters[CHOOSE i \in 1..26 : LowerLetters[i] = r[1]]>> ELSE r
ToLowerRune(r) ==
    IF Len(r) = 1 /\ IsUpper(r[1])
    THEN <<LowerLetters[CHOOSE i \in 1..26 : UpperLetters[i] = r[1]]>> ELSE r

UpperRunes(rs) == [i \in 1..Len(rs) |-> ToUpperRune(rs[i])]
LowerRunes(rs) == [i \in 1..Len(rs) |-> ToLowerRune(rs[i])]

\* strings.ToUpper, strings.ToLower: rune by rune, so that a byte that is
\* no valid encoding comes out as U+FFFD.
ToUpper(s) == RunesToString(UpperRunes(Runes(s)))
ToLower(s) == RunesToString(LowerRunes(Runes(s)))

\* strings.EqualFold
EqualFold(a, b) == LowerRunes(Runes(a)) = LowerRunes(Runes(b))

\* isSeparator of package strings: what ends a word for strings.Title.
IsSeparator(r) ==
    IF Len(r) = 1
    THEN ~(IsLower(r[1]) \/ IsUpper(r[1]) \/ IsDigit(r[1]) \/ r[1] = "_")
    ELSE FALSE

\* strings.Title
Title(s) ==
    LET rs == Runes(s)
    IN  RunesToString([i \in 1..Len(rs) |->
            IF i = 1 \/ IsSeparator(rs[i - 1]) THEN ToUpperRune(rs[i]) ELSE rs[i]])

\* strconv.Itoa for n >= 0, and for any n.
RECURSIVE NatToStr(_)
NatToStr(n) ==
    IF n < 10 THEN <<Digits[n + 1]>> ELSE NatToStr(n \div 10) \o <<Digits[(n % 10) + 1]>>

AllDigits(s) == \A i \in 1..Len(s) : IsDigit(s[i])

\* The number a run of digits spells.
RECURSIVE DigitsToNat(_)
DigitsToNat(s) ==
    IF s = <<>> THEN 0 ELSE DigitsToNat(SubSeq(s, 1, Len(s) - 1)) * 10 + DigitVal(s[Len(s)])

RECURSIVE Pow10(_)
Pow10(k) == IF k = 0 THEN 1 ELSE 10 * Pow10(k - 1)

\* w decimal digits of n, zero padded on the left.
RECURSIVE PadDigits(_, _)
PadDigits(n, w) ==
    IF w = 0 THEN <<>> ELSE PadDigits(n \div 10, w - 1) \o <<Digits[(n % 10) + 1]>>

Abs(n) == IF n < 0 THEN -n ELSE n

---------------------------------------------------------------------------
(* Value resolver                                                          *)

\* A Go identifier is exported when its first letter is upper case.
IsExported(name) == name # <<>> /\ IsUpper(name[1])

\* The fields that reflect.Value.FieldByNameFunc's match function accepts.
MatchingFields(fields, seg) == {i \in 1..Len(fields) : EqualFold(fields[i].name, seg)}

NotFound == [outcome |-> "notfound", value |-> NilV]

\* time.Time is a struct of three fields, none exported.
TimeFields == <<<<"w", "a", "l", "l">>, <<"e", "x", "t">>, <<"l", "o", "c">>>>

\* One round of the loop of getValueByPath: from current along seg.  outcome
\* is "ok", "notfound" (return nil, false) or "panic": FieldByNameFunc
\* returns no field when several match, and Value.Interface panics on a field
\* that is not exported.
resolveSegment(current, seg) ==
    IF current.t = "map"
    THEN IF seg \in DOMAIN current.m
         THEN [outcome |-> "ok", value |-> current.m[seg]]
         ELSE NotFound
    ELSE LET r == IF current.t = "ptr"
                  THEN (IF current.isNil THEN NilV ELSE current.elem)
                  ELSE current
         IN  IF r.t = "time"
             THEN IF \E i \in 1..Len(TimeFields) : EqualFold(TimeFields[i], seg)
                  THEN [outcome |-> "panic", value |-> NilV]
                  ELSE NotFound
             ELSE IF r.t # "struct" THEN NotFound
             ELSE LET ms == MatchingFields(r.fields, seg)
                  IN  IF Cardinality(ms) # 1 THEN NotFound
                      ELSE LET f == r.fields[CHOOSE i \in ms : TRUE]
                           IN  IF IsExported(f.name)
                               THEN [outcome |-> "ok", value |-> f.val]
                               ELSE [outcome |-> "panic", value |-> NilV]

RECURSIVE resolveFrom(_, _, _)
resolveFrom(current, segs, i) ==
    IF i > Len(segs) THEN [outcome |-> "ok", value |-> current]
    ELSE LET r == resolveSegment(current, segs[i])
         IN  IF r.outcome # "ok" THEN r ELSE resolveFrom(r.value, segs, i + 1)

\* getValueByPath(args, path); found is outcome = "ok".
getValueByPath(args, path) == resolveFrom(args, Split(path, "."), 1)

---------------------------------------------------------------------------
(* fmt.Sprint                                                              *)

\* The bytes of the model in their numeric order.
ByteOrder ==
    <<"\t", " ", "!", "$", "%", "&", "(", ")", "+", ",", "-", ".", "/",
      "0", "1", "2", "3", "4", "5", "6", "7", "8", "9", ":", "<", "=", ">", "?",
      "A", "B", "C", "D", "E", "F", "G", "H", "I", "J", "K", "L", "M",
      "N", "O", "P", "Q", "R", "S", "T", "U", "V", "W", "X", "Y", "Z",
      "[", "]", "_",
      "a", "b", "c", "d", "e", "f", "g", "h", "i", "j", "k", "l", "m",
      "n", "o", "p", "q", "r", "s", "t", "u", "v", "w", "x", "y", "z",
      "{", "|", "}", "A5", "BD", "BF", "C2", "EF">>

ByteRank(b) == CHOOSE i \in 1..Len(ByteOrder) : ByteOrder[i] = b

\* a < b as Go compares strings.
RECURSIVE StrLess(_, _)
StrLess(a, b) ==
    IF b = <<>> THEN FALSE
    ELSE IF a = <<>> THEN TRUE
    ELSE IF a[1] = b[1] THEN StrLess(Tail(a), Tail(b))
    ELSE ByteRank(a[1]) < ByteRank(b[1])

\* The keys of a set in increasing order.
RECURSIVE SortedKeys(_)
SortedKeys(ks) ==
    IF ks = {} THEN <<>>
    ELSE LET m == CHOOSE k \in ks : \A o \in ks \ {k} : StrLess(k, o)
         IN  <<m>> \o SortedKeys(ks \ {m})

\* A number n/d printed with exactly w decimals, w being enough for it.
FixedStr(n, d, w) ==
    LET scaled == Abs(n) * (Pow10(w) \div d)
        ip == NatToStr(scaled \div Pow10(w))
    IN  (IF n < 0 THEN <<"-">> ELSE <<>>)
        \o ip \o (IF w = 0 THEN <<>> ELSE <<".">> \o PadDigits(scaled % Pow10(w), w))

\* n/d with the common factors of ten removed.
RECURSIVE Reduce(_, _)
Reduce(n, d) ==
    IF d > 1 /\ n % 10 = 0 THEN Reduce(n \div 10, d \div 10) ELSE [n |-> n, d |-> d]

\* k for d = 10^k.
RECURSIVE Log10(_)
Log10(d) == IF d <= 1 THEN 0 ELSE 1 + Log10(d \div 10)

\* %v of a number: an integer in decimal, a float in its shortest form.
SprintNum(v) ==
    LET r == Reduce(v.n, v.d)
    IN  FixedStr(r.n, r.d, Log10(r.d))

\* time.Time.String for a midnight in UTC.
SprintTime(v) ==
    PadDigits(v.year, 4) \o <<"-">> \o PadDigits(v.month, 2) \o <<"-">>
    \o PadDigits(v.day, 2)
    \o <<" ", "0", "0", ":", "0", "0", ":", "0", "0", " ",
         "+", "0", "0", "0", "0", " ", "U", "T", "C">>

RECURSIVE JoinWith(_, _)
JoinWith(strs, sep) ==
    IF strs = <<>> THEN <<>>
    ELSE IF Len(strs) = 1 THEN strs[1]
    ELSE strs[1] \o sep \o JoinWith(Tail(strs), sep)

\* fmt.Sprint(value).  The structs and maps of the model hold no pointers, so
\* no address is printed.
RECURSIVE Sprint(_)
Sprint(v) ==
    CASE IsNum(v) -> SprintNum(v)
      [] v.t = "string" -> v.s
      [] v.t = "bool" -> IF v.b THEN <<"t", "r", "u", "e">> ELSE <<"f", "a", "l", "s", "e">>
      [] v.t = "nil" -> <<"<", "n", "i", "l", ">">>
      [] v.t = "time" -> SprintTime(v)
      [] v.t = "struct" ->
            <<"{">> \o JoinWith([i \in 1..Len(v.fields) |-> Sprint(v.fields[i].val)], <<" ">>)
            \o <<"}">>
      [] v.t = "map" ->
            LET ks == SortedKeys(DOMAIN v.m)
            IN  <<"m", "a", "p", "[">>
                \o JoinWith([i \in 1..Len(ks) |-> ks[i] \o <<":">> \o Sprint(v.m[ks[i]])], <<" ">>)
                \o <<"]">>
      [] v.t = "ptr" ->
            IF v.isNil THEN <<"<", "n", "i", "l", ">">>
            ELSE IF v.elem.t = "time" THEN SprintTime(v.elem)
            ELSE <<"&">> \o Sprint(v.elem)

---------------------------------------------------------------------------
(* strconv                                                                 *)

StripZeros(ds) ==
    LET nz == {i \in 1..Len(ds) : ds[i] # "0"}
    IN  IF nz = {} THEN <<>>
        ELSE SubSeq(ds, CHOOSE i \in nz : \A k \in nz : i <= k, Len(ds))

MaxInt64Digits ==
    <<"9", "2", "2", "3", "3", "7", "2", "0", "3", "6", "8", "5", "4", "7", "7", "5", "8", "0", "7">>
MinInt64Digits ==
    <<"9", "2", "2", "3", "3", "7", "2", "0", "3", "6", "8", "5", "4", "7", "7", "5", "8", "0", "8">>

\* Whether the digits ds, with the sign, spell a value of a 64 bit int.
InIntRange(neg, ds) ==
    LET z == StripZeros(ds)
        lim == IF neg THEN MinInt64Digits ELSE MaxInt64Digits
    IN  \/ Len(z) < Len(lim)
        \/ Len(z) = Len(lim) /\ ~StrLess(lim, z)

HasSign(s) == s # <<>> /\ s[1] \in {"+", "-"}
Unsigned(s) == IF HasSign(s) THEN Tail(s) ELSE s
IsNeg(s) == s # <<>> /\ s[1] = "-"

\* strconv.Atoi(s) returns a nil error: an optional sign and decimal digits
\* spelling a value of the int type (64 bits).
AtoiOK(s) ==
    /\ Unsigned(s) # <<>>
    /\ AllDigits(Unsigned(s))
    /\ InIntRange(IsNeg(s), Unsigned(s))

\* The value strconv.Atoi(s) returns when AtoiOK(s).
AtoiVal(s) == IF IsNeg(s) THEN -DigitsToNat(Unsigned(s)) ELSE DigitsToNat(Unsigned(s))

\* strconv.ParseFloat(s, 64) on a decimal literal: an optional sign, digits
\* with at most one point, at least one digit.  (Go accepts as well an
\* exponent, hexadecimal floats, "inf" and "nan": none is passed in the model.)
ParseFloat(s) ==
    LET u == Unsigned(s)
        parts == SplitN2(u, ".")
        ip == parts[1]
        fp == IF Len(parts) > 1 THEN parts[2] ELSE <<>>
        ok == /\ AllDigits(ip) /\ AllDigits(fp)
              /\ Len(ip) + Len(fp) > 0
        mag == DigitsToNat(ip \o fp)
    IN  IF ~ok THEN [ok |-> FALSE, n |-> 0, d |-> 1]
        ELSE [ok |-> TRUE, n |-> IF IsNeg(s) THEN -mag ELSE mag, d |-> Pow10(Len(fp))]

---------------------------------------------------------------------------
(* Number formatting                                                       *)

\* fmt.Sprintf("%.<p>f", n/d) for p >= 0: rounded to p decimals, to even on
\* a tie (the ties of the model are exact in binary).
SprintfFixed(n, d, p) ==
    LET sign == IF n < 0 THEN <<"-">> ELSE <<>>
        scaled == IF Pow10(p) >= d THEN Abs(n) * (Pow10(p) \div d)
                  ELSE LET k == d \div Pow10(p)
                           q == Abs(n) \div k
                           r == Abs(n) % k
                       IN  IF 2 * r > k \/ (2 * r = k /\ q % 2 = 1) THEN q + 1 ELSE q
    IN  sign \o NatToStr(scaled \div Pow10(p))
        \o (IF p = 0 THEN <<>> ELSE <<".">> \o PadDigits(scaled % Pow10(p), p))

NumDigits(n) == Len(NatToStr(n))

\* fmt's %v of a float64 under a precision of 0 (that is "%.0g"): one
\* significant digit, in exponent form from 10 on.
SprintG0(n, d) ==
    LET sign == IF n < 0 THEN <<"-">> ELSE <<>>
        a == Abs(n)
    IN  IF a = 0 THEN <<"0">>
        ELSE IF a >= d
        THEN LET e == NumDigits(a \div d) - 1
                 k == d * Pow10(e)
                 q == a \div k
                 r == a % k
                 lead == IF 2 * r > k \/ (2 * r = k /\ q % 2 = 1) THEN q + 1 ELSE q
                 e2 == IF lead = 10 THEN e + 1 ELSE e
                 l2 == IF lead = 10 THEN 1 ELSE lead
             IN  IF e2 = 0 THEN sign \o NatToStr(l2)
                 ELSE sign \o NatToStr(l2) \o <<"e", "+">> \o PadDigits(e2, 2)
        ELSE LET z == Log10(d) - NumDigits(a)
                 k == Pow10(NumDigits(a) - 1)
                 q == a \div k
                 r == a % k
                 lead == IF 2 * r > k \/ (2 * r = k /\ q % 2 = 1) THEN q + 1 ELSE q
             IN  IF lead = 10 /\ z = 0 THEN sign \o <<"1">>
                 ELSE sign \o <<"0", ".">>
                      \o PadDigits(0, IF lead = 10 THEN z - 1 ELSE z)
                      \o NatToStr(IF lead = 10 THEN 1 ELSE lead)

\* fmt.Sprintf("%." + strconv.Itoa(p) + "f", n/d).  With p < 0 the format is
\* "%.-1f": the precision is taken as 0, "-" is read as the verb, which
\* float64 does not have, and the rest of the format is printed as it is.
SprintfPrecF(n, d, p) ==
    IF p >= 0 THEN SprintfFixed(n, d, p)
    ELSE <<"%", "!", "-", "(", "f", "l", "o", "a", "t", "6", "4", "=">>
         \o SprintG0(n, d) \o <<")">> \o NatToStr(-p) \o <<"f">>

\* The loop of addThousandsSep over the runes of intPart; off is the byte
\* offset of rune i (from 0) and total is len(intPart).
RECURSIVE sepLoop(_, _, _, _)
sepLoop(rs, i, off, total) ==
    IF i > Len(rs) THEN <<>>
    ELSE (IF off # 0 /\ (total - off) % 3 = 0 THEN <<",">> ELSE <<>>)
         \o rs[i] \o sepLoop(rs, i + 1, off + Len(rs[i]), total)

\* addThousandsSep
addThousandsSep(s0) ==
    LET neg == HasPrefix(s0, <<"-">>)
        s == IF neg THEN Tail(s0) ELSE s0
        parts == Split(s, ".")
        intPart == parts[1]
        body == sepLoop(Runes(intPart), 1, 0, Len(intPart))
                \o (IF Len(parts) > 1 THEN <<".">> \o parts[2] ELSE <<>>)
    IN  IF neg THEN <<"-">> \o body ELSE body

NoErr == "nil"

\* formatNumber(v, precision): err is NoErr or the error's kind.
formatNumber(v, precision) ==
    LET f == IF IsNum(v) THEN [ok |-> TRUE, n |-> v.n, d |-> v.d]
             ELSE IF v.t = "string"
             THEN ParseFloat(RemoveAll(TrimSpace(v.s), ","))
             ELSE [ok |-> FALSE, n |-> 0, d |-> 1]
    IN  IF ~f.ok
        THEN [err |-> IF v.t = "string" THEN "number formatter: cannot parse"
                      ELSE "number formatter requires numeric or numeric-string type",
              value |-> StrV(<<>>)]
        ELSE IF precision # <<>> /\ ~AtoiOK(precision)
        THEN [err |-> "number formatter: invalid precision", value |-> StrV(<<>>)]
        ELSE LET p == IF precision # <<>> THEN AtoiVal(precision) ELSE 0
             IN  [err |-> NoErr, value |-> StrV(addThousandsSep(SprintfPrecF(f.n, f.d, p)))]

CurrencySymbols == <<(<<"$">>), <<"C2", "A5">>>>

\* formatCurrency(v, arg).  (The code strips the euro and the pound sign as
\* well; their bytes are not among those of the model.)
formatCurrency(v, arg) ==
    LET symbol == IF arg # <<>> THEN arg ELSE <<"$">>
        stripped == IF v.t = "string"
                    THEN RemoveAll(
                           TrimPrefix(
                             TrimPrefix(TrimPrefix(TrimSpace(v.s), CurrencySymbols[1]),
                                        CurrencySymbols[2]),
                             symbol), ",")
                    ELSE <<>>
        f == IF IsNum(v) THEN [ok |-> TRUE, n |-> v.n, d |-> v.d]
             ELSE IF v.t = "string" THEN ParseFloat(stripped)
             ELSE [ok |-> FALSE, n |-> 0, d |-> 1]
    IN  IF ~f.ok
        THEN [err |-> IF v.t = "string" THEN "currency formatter: cannot parse number"
                      ELSE "currency formatter requires numeric or numeric-string type",
              value |-> StrV(<<>>)]
        ELSE [err |-> NoErr,
              value |-> StrV(symbol \o addThousandsSep(SprintfFixed(f.n, f.d, 2)))]

---------------------------------------------------------------------------
(* Date formatting                                                         *)

DefaultLayout == <<"2", "0", "0", "6", "-", "0", "1", "-", "0", "2">>

\* time.Time.Format(layout) for a layout made of the year ("2006"), the
\* month ("01"), the day ("02") and bytes that are no part of a layout
\* element.
RECURSIVE FormatLayout(_, _)
FormatLayout(v, layout) ==
    IF layout = <<>> THEN <<>>
    ELSE IF HasPrefix(layout, <<"2", "0", "0", "6">>)
    THEN PadDigits(v.year, 4) \o FormatLayout(v, SubSeq(layout, 5, Len(layout)))
    ELSE IF HasPrefix(layout, <<"0", "1">>)
    THEN PadDigits(v.month, 2) \o FormatLayout(v, SubSeq(layout, 3, Len(layout)))
    ELSE IF HasPrefix(layout, <<"0", "2">>)
    THEN PadDigits(v.day, 2) \o FormatLayout(v, SubSeq(layout, 3, Len(layout)))
    ELSE <<layout[1]>> \o FormatLayout(v, Tail(layout))

DaysIn(y, m) ==
    IF m = 2 THEN (IF (y % 4 = 0 /\ y % 100 # 0) \/ y % 400 = 0 THEN 29 ELSE 28)
    ELSE IF m \in {4, 6, 9, 11} THEN 30 ELSE 31

\* time.Parse(time.RFC3339, s) for a string without fractional seconds:
\* "2006-01-02T15:04:05Z" or "2006-01-02T15:04:05+07:00".
ParseRFC3339(s) ==
    LET num(a, b) == DigitsToNat(SubSeq(s, a, b))
        dig(a, b) == AllDigits(SubSeq(s, a, b))
        shape == /\ Len(s) \in {20, 25}
                 /\ dig(1, 4) /\ s[5] = "-" /\ dig(6, 7) /\ s[8] = "-" /\ dig(9, 10)
                 /\ s[11] = "T"
                 /\ dig(12, 13) /\ s[14] = ":" /\ dig(15, 16) /\ s[17] = ":" /\ dig(18, 19)
                 /\ IF Len(s) = 20 THEN s[20] = "Z"
                    ELSE /\ s[20] \in {"+", "-"}
                         /\ dig(21, 22) /\ s[23] = ":" /\ dig(24, 25)
        ranges == /\ num(6, 7) \in 1..12
                  /\ num(9, 10) \in 1..DaysIn(num(1, 4), num(6, 7))
                  /\ num(12, 13) < 24 /\ num(15, 16) < 60 /\ num(18, 19) < 60
                  /\ (Len(s) = 25 => num(21, 22) < 24 /\ num(24, 25) < 60)
    IN  IF shape /\ ranges
        THEN [ok |-> TRUE, value |-> TimeV(num(1, 4), num(6, 7), num(9, 10))]
        ELSE [ok |-> FALSE, value |-> NilV]

\* formatDate(v, layout).  Formatting through a nil *time.Time panics.
formatDate(v, layout0) ==
    LET layout == IF layout0 = <<>> THEN DefaultLayout ELSE layout0
    IN  IF v.t = "time" THEN [err |-> NoErr, value |-> StrV(FormatLayout(v, layout))]
        ELSE IF v.t = "ptr" /\ v.to = "time"
        THEN IF v.isNil THEN [err |-> "panic", value |-> NilV]
             ELSE [err |-> NoErr, value |-> StrV(FormatLayout(v.elem, layout))]
        ELSE IF v.t = "string"
        THEN LET tt == ParseRFC3339(v.s)
             IN  IF ~tt.ok THEN [err |-> "time: cannot parse", value |-> StrV(<<>>)]
                 ELSE [err |-> NoErr, value |-> StrV(FormatLayout(tt.value, layout))]
        ELSE [err |-> "not a time", value |-> StrV(<<>>)]

---------------------------------------------------------------------------
(* Formatter registry                                                      *)

S_upper == <<"u", "p", "p", "e", "r">>
S_lower == <<"l", "o", "w", "e", "r">>
S_title == <<"t", "i", "t", "l", "e">>
S_number == <<"n", "u", "m", "b", "e", "r">>
S_currency == <<"c", "u", "r", "r", "e", "n", "c", "y">>
S_date == <<"d", "a", "t", "e">>

\* The registry after init(): the name of each built-in formatter mapped to
\* its function (named by a string).
BuiltinRegistry ==
    (S_upper :> "upper") @@ (S_lower :> "lower") @@ (S_title :> "title")
    @@ (S_number :> "number") @@ (S_currency :> "currency") @@ (S_date :> "date")

\* f(v, arg) for the FormatterFunc named fn: a built-in one, or one a caller
\* registers: "userFail" fails on every input, "userLen" returns an int (the
\* length of the printed input).
callFormatter(fn, v, arg) ==
    CASE fn = "upper" -> [err |-> NoErr, value |-> StrV(ToUpper(Sprint(v)))]
      [] fn = "lower" -> [err |-> NoErr, value |-> StrV(ToLower(Sprint(v)))]
      [] fn = "title" -> [err |-> NoErr, value |-> StrV(Title(Sprint(v)))]
      [] fn = "number" -> formatNumber(v, arg)
      [] fn = "currency" -> formatCurrency(v, arg)
      [] fn = "date" -> formatDate(v, arg)
      [] fn = "userFail" -> [err |-> "user formatter failed", value |-> NilV]
      [] fn = "userLen" -> [err |-> NoErr, value |-> IntV(Len(Sprint(v)))]

\* applyRegisteredFormatter(v, name, arg) on the registry reg.
applyRegisteredFormatter(reg, v, name, arg) ==
    IF name \notin DOMAIN reg THEN [err |-> "unknown formatter", value |-> NilV]
    ELSE callFormatter(reg[name], v, arg)

---------------------------------------------------------------------------
(* Comparison                                                              *)

OpEq == <<"e", "q">>
OpGt == <<"g", "t">>
OpLt == <<"l", "t">>

\* compareNumbers with gt and lt taken one for the other.
compareNumbersSwapped(v, op, test) ==
    LET rv == ParseFloat(test)
    IN  IF ~rv.ok THEN [ok |-> FALSE, err |-> "strconv.ParseFloat: invalid syntax"]
        ELSE IF op = OpEq THEN [ok |-> v.n * rv.d = rv.n * v.d, err |-> NoErr]
        ELSE IF op = OpGt THEN [ok |-> v.n * rv.d < rv.n * v.d, err |-> NoErr]
        ELSE IF op = OpLt THEN [ok |-> v.n * rv.d > rv.n * v.d, err |-> NoErr]
        ELSE [ok |-> FALSE, err |-> "unknown op"]

\* compareNumbers(v, op, test): lv = v.n / v.d, rv = strconv.ParseFloat(test).
compareNumbers(v, op, test) ==
    LET rv == ParseFloat(test)
    IN  IF ~rv.ok THEN [ok |-> FALSE, err |-> "strconv.ParseFloat: invalid syntax"]
        ELSE IF op = OpEq THEN [ok |-> v.n * rv.d = rv.n * v.d, err |-> NoErr]
        ELSE IF op = OpGt THEN [ok |-> v.n * rv.d > rv.n * v.d, err |-> NoErr]
        ELSE IF op = OpLt THEN [ok |-> v.n * rv.d < rv.n * v.d, err |-> NoErr]
        ELSE [ok |-> FALSE, err |-> "unknown op"]

\* compareValues when every operator but eq is false of a string and
\* every comparison is false of a value of another type.
compareValuesLenient(v, op, test) ==
    IF IsNum(v) THEN compareNumbers(v, op, test)
    ELSE [ok |-> v.t = "string" /\ op = OpEq /\ v.s = test, err |-> NoErr]

\* compareValues(v, op, test)
compareValues(v, op, test) ==
    IF IsNum(v) THEN compareNumbers(v, op, test)
    ELSE IF v.t = "string"
    THEN IF op = OpEq THEN [ok |-> v.s = test, err |-> NoErr]
         ELSE [ok |-> FALSE, err |-> "unsupported string op"]
    ELSE [ok |-> FALSE, err |-> "unsupported type for compare"]

---------------------------------------------------------------------------
(* Evaluator                                                               *)
(*                                                                         *)
(* A goroutine that runs RenderTemplate is a stack of frames, one for each *)
(* call of RenderTemplate that has not returned: the template, the AST     *)
(* once it is known, the node TemplateAST.Eval is at, its buffer, and the  *)
(* value PlaceholderNode.Eval holds for the node.  pc is the place of the  *)
(* frame in the code:                                                      *)
(*   "RLock"     before cacheMutex.RLock()                                 *)
(*   "lookup"    holding the read lock: astCache[tpl], RUnlock()           *)
(*   "parse"     the miss: ParseTemplate(tpl)                              *)
(*   "Lock"      before cacheMutex.Lock()                                  *)
(*   "lockWait"  in Lock(), new readers held off, waiting for the readers  *)
(*   "insert"    holding the write lock: astCache[tpl] = ast, Unlock()     *)
(*   "eval"      at the head of the loop of TemplateAST.Eval               *)
(*   "fmtRLock"  in applyRegisteredFormatter, before regMutex.RLock()      *)
(*   "fmtRead"   holding the read lock: formatterRegistry[name], RUnlock() *)
(*   "fmtCall"   the call f(v, arg)                                        *)
(*   "fmtWait"   in f, in the RenderTemplate call that f makes             *)
(*   "regLock"   in f, in RegisterFormatter, before regMutex.Lock()        *)
(*   "regLockWait" in Lock(), new readers held off, waiting for the readers*)
(*   "regWrite"  holding the write lock: formatterRegistry[name] = f and   *)
(*               the deferred Unlock()                                     *)
(*   "cond"      after the formatters of the node                          *)
(*   "wait"      in the RenderTemplate call of a conditional's branch      *)
(* The goroutine also records what it did: parsed (the templates           *)
(* ParseTemplate was called on), rendered (those RenderTemplate was        *)
(* called on), fcalls (the calls of applyRegisteredFormatter), evals (the  *)
(* nodes evaluated, each as the template of its AST and its index), in the *)
(* order of the calls.  An err of "panic" is a panic unwinding the         *)
(* goroutine: no value is returned.                                        *)

EmptyCache == [k \in {} |-> <<>>]

\* A sync.RWMutex: the goroutines holding it for reading, and the one that
\* holds it for writing or waits in Lock() for the readers to leave.
FreeMutex == [readers |-> {}, writer |-> "none"]

\* The state the goroutines share.
Shared(cache, reg, cm, rm) ==
    [astCache |-> cache, formatterRegistry |-> reg, cacheMutex |-> cm, regMutex |-> rm]

\* The frame of a call RenderTemplate(tpl, args).
RenderFrame(tpl) ==
    [tpl |-> tpl, pc |-> "RLock", ast |-> <<>>, idx |-> 1, buf |-> <<>>,
     val |-> NilV, fi |-> 1, fn |-> "none"]

\* The frame of a call ast.Eval(args) made directly; tpl names the AST.
EvalFrame(tpl, ast) ==
    [tpl |-> tpl, pc |-> "eval", ast |-> ast, idx |-> 1, buf |-> <<>>,
     val |-> NilV, fi |-> 1, fn |-> "none"]

\* A goroutine that starts with the given frame and args.
Goroutine(frame, args) ==
    [stack |-> <<frame>>, args |-> args, done |-> FALSE, out |-> <<>>, err |-> NoErr,
     parsed |-> <<>>, rendered |-> <<>>, fcalls |-> <<>>, evals |-> <<>>]

Top(g) == g.stack[Len(g.stack)]

SetTop(g, frame) == [g EXCEPT !.stack[Len(g.stack)] = frame]

\* Fail that returns what the buffer of the first frame holds.
FailPartial(g, err) ==
    [g EXCEPT !.stack = <<>>, !.done = TRUE, !.out = g.stack[1].buf, !.err = err]

\* return "", err from the node, and so from every frame of the stack.
Fail(g, err) == [g EXCEPT !.stack = <<>>, !.done = TRUE, !.out = <<>>, !.err = err]

\* The frame of the caller when the call it waits for returns out: a
\* placeholder node returns the string of its branch; a formatter returns
\* the string as its value, and the loop over the formatters goes on.
Returned(below, out) ==
    IF below.pc = "fmtWait"
    THEN [below EXCEPT !.val = StrV(out), !.fi = @ + 1, !.fn = "none",
                       !.pc = IF below.fi + 1 <= Len(below.ast[below.idx].Formatters)
                              THEN "fmtRLock" ELSE "cond"]
    ELSE [below EXCEPT !.buf = @ \o out, !.idx = @ + 1, !.pc = "eval"]

\* return buf.String(), nil from the top frame: to the caller of the
\* goroutine, or to the frame below.
Return(g) ==
    LET n == Len(g.stack)
        out == g.stack[n].buf
    IN  IF n = 1 THEN [g EXCEPT !.stack = <<>>, !.done = TRUE, !.out = out, !.err = NoErr]
        ELSE [g EXCEPT !.stack =
                 Append(SubSeq(g.stack, 1, n - 2), Returned(g.stack[n - 1], out))]

\* Whether the goroutine can take its next step: it cannot while the lock
\* it asks for is not to be had.
CanStep(g, sh) ==
    /\ ~g.done
    /\ LET pc == Top(g).pc
       IN  /\ pc = "RLock" => sh.cacheMutex.writer = "none"
           /\ pc = "Lock" => sh.cacheMutex.writer = "none"
           /\ pc = "lockWait" => sh.cacheMutex.readers = {}
           /\ pc = "fmtRLock" => sh.regMutex.writer = "none"
           /\ pc = "regLock" => sh.regMutex.writer = "none"
           /\ pc = "regLockWait" => sh.regMutex.readers = {}

\* RenderTemplate: cacheMutex.RLock()
StepRLock(me, g, sh) ==
    [g |-> [SetTop(g, [Top(g) EXCEPT !.pc = "lookup"])
               EXCEPT !.rendered = Append(@, Top(g).tpl)],
     sh |-> [sh EXCEPT !.cacheMutex.readers = @ \cup {me}]]

\* StepLookup that never finds the entry.
StepLookupMiss(me, g, sh) ==
    [g |-> SetTop(g, [Top(g) EXCEPT !.pc = "parse"]),
     sh |-> [sh EXCEPT !.cacheMutex.readers = @ \ {me}]]

\* RenderTemplate: ast, ok := astCache[tpl]; cacheMutex.RUnlock()
StepLookup(me, g, sh) ==
    LET f == Top(g)
        hit == f.tpl \in DOMAIN sh.astCache
    IN  [g |-> SetTop(g, IF hit THEN [f EXCEPT !.ast = sh.astCache[f.tpl], !.pc = "eval"]
                         ELSE [f EXCEPT !.pc = "parse"]),
         sh |-> [sh EXCEPT !.cacheMutex.readers = @ \ {me}]]

\* RenderTemplate: ast, err = ParseTemplate(tpl)
StepParse(me, g, sh) ==
    [g |-> [SetTop(g, [Top(g) EXCEPT !.ast = ParseTemplate(Top(g).tpl), !.pc = "Lock"])
               EXCEPT !.parsed = Append(@, Top(g).tpl)],
     sh |-> sh]

\* RenderTemplate: cacheMutex.Lock(), its start and its end.
StepLock(me, g, sh) ==
    [g |-> SetTop(g, [Top(g) EXCEPT !.pc = "lockWait"]),
     sh |-> [sh EXCEPT !.cacheMutex.writer = me]]

StepLockWait(me, g, sh) ==
    [g |-> SetTop(g, [Top(g) EXCEPT !.pc = "insert"]), sh |-> sh]

\* StepInsert that puts an empty AST in the place of an entry it finds.
StepInsertReplace(me, g, sh) ==
    LET f == Top(g)
    IN  [g |-> SetTop(g, [f EXCEPT !.pc = "eval"]),
         sh |-> [sh EXCEPT !.astCache = (f.tpl :> IF f.tpl \in DOMAIN @ THEN <<>> ELSE f.ast)
                                            @@ @,
                           !.cacheMutex.writer = "none"]]

\* RenderTemplate: astCache[tpl] = ast; cacheMutex.Unlock()
StepInsert(me, g, sh) ==
    LET f == Top(g)
    IN  [g |-> SetTop(g, [f EXCEPT !.pc = "eval"]),
         sh |-> [sh EXCEPT !.astCache = (f.tpl :> f.ast) @@ @,
                           !.cacheMutex.writer = "none"]]

\* TemplateAST.Eval: the head of the loop, and node.Eval(args) up to the
\* formatters: a text node whole, a placeholder's getValueByPath.
\* PlaceholderNode.Eval on the result v of getValueByPath.
Resolved(g, node, v) ==
    IF v.outcome = "notfound" THEN Fail(g, "value not found")
    ELSE IF v.outcome = "panic" THEN Fail(g, "panic")
    ELSE SetTop(g, [Top(g) EXCEPT !.val = v.value, !.fi = 1,
                                  !.pc = IF Len(node.Formatters) >= 1
                                         THEN "fmtRLock" ELSE "cond"])

StepEval(me, g, sh) ==
    LET f == Top(g)
    IN  IF f.idx > Len(f.ast) THEN [g |-> Return(g), sh |-> sh]
        ELSE LET node == f.ast[f.idx]
                 g1 == [g EXCEPT !.evals = Append(@, [tpl |-> f.tpl, idx |-> f.idx])]
             IN  IF ~IsPlaceholder(node)
                 THEN [g |-> SetTop(g1, [f EXCEPT !.buf = @ \o node.Text, !.idx = @ + 1]),
                       sh |-> sh]
                 ELSE [g |-> Resolved(g1, node, getValueByPath(g.args, node.Path)),
                       sh |-> sh]

\* applyRegisteredFormatter: regMutex.RLock()
StepFmtRLock(me, g, sh) ==
    LET f == Top(g)
        fm == f.ast[f.idx].Formatters[f.fi]
    IN  [g |-> [SetTop(g, [f EXCEPT !.pc = "fmtRead"])
                   EXCEPT !.fcalls = Append(@, [name |-> fm.Name, arg |-> fm.Arg,
                                                input |-> f.val])],
         sh |-> [sh EXCEPT !.regMutex.readers = @ \cup {me}]]

\* StepFmtRead that keeps the read lock over the call of f.
StepFmtReadHold(me, g, sh) ==
    LET f == Top(g)
        name == f.ast[f.idx].Formatters[f.fi].Name
    IN  IF name \notin DOMAIN sh.formatterRegistry
        THEN [g |-> Fail(g, "unknown formatter"),
              sh |-> [sh EXCEPT !.regMutex.readers = @ \ {me}]]
        ELSE [g |-> SetTop(g, [f EXCEPT !.fn = sh.formatterRegistry[name], !.pc = "fmtCall"]),
              sh |-> sh]

\* applyRegisteredFormatter: f, ok := formatterRegistry[name];
\* regMutex.RUnlock(); the return when !ok.
StepFmtRead(me, g, sh) ==
    LET f == Top(g)
        name == f.ast[f.idx].Formatters[f.fi].Name
        sh1 == [sh EXCEPT !.regMutex.readers = @ \ {me}]
    IN  IF name \notin DOMAIN sh.formatterRegistry
        THEN [g |-> Fail(g, "unknown formatter"), sh |-> sh1]
        ELSE [g |-> SetTop(g, [f EXCEPT !.fn = sh.formatterRegistry[name], !.pc = "fmtCall"]),
              sh |-> sh1]

\* applyRegisteredFormatter: return f(v, arg), and the loop of
\* PlaceholderNode.Eval that called it.
\* Formatted that leaves the value as it was before the formatter.
FormattedKeepInput(g, r) ==
    LET f == Top(g)
    IN  IF r.err # NoErr THEN Fail(g, r.err)
        ELSE SetTop(g, [f EXCEPT !.fi = @ + 1, !.fn = "none",
                                 !.pc = IF f.fi + 1 <= Len(f.ast[f.idx].Formatters)
                                        THEN "fmtRLock" ELSE "cond"])

\* The loop of PlaceholderNode.Eval on the result r of a formatter.
Formatted(g, r) ==
    LET f == Top(g)
    IN  IF r.err # NoErr THEN Fail(g, r.err)
        ELSE SetTop(g, [f EXCEPT !.val = r.value, !.fi = @ + 1, !.fn = "none",
                                 !.pc = IF f.fi + 1 <= Len(f.ast[f.idx].Formatters)
                                        THEN "fmtRLock" ELSE "cond"])

\* The call f(v, arg).  Two FormatterFuncs of a caller use the engine:
\* "userRender" returns RenderTemplate(arg, args), "userRegister" calls
\* RegisterFormatter(arg, f) for the f named "userLen" and returns v.
StepFmtCall(me, g, sh) ==
    LET f == Top(g)
    IN  IF f.fn = "userRender"
        THEN [g |-> [g EXCEPT !.stack =
                        Append(SubSeq(g.stack, 1, Len(g.stack) - 1),
                               [f EXCEPT !.pc = "fmtWait"])
                        \o <<RenderFrame(f.ast[f.idx].Formatters[f.fi].Arg)>>],
              sh |-> sh]
        ELSE IF f.fn = "userRegister"
        THEN [g |-> SetTop(g, [f EXCEPT !.pc = "regLock"]), sh |-> sh]
        ELSE [g |-> Formatted(g, callFormatter(f.fn, f.val,
                                               f.ast[f.idx].Formatters[f.fi].Arg)),
              sh |-> sh]

\* RegisterFormatter called by a formatter: regMutex.Lock(), its start and
\* its end.
StepRegLock(me, g, sh) ==
    [g |-> SetTop(g, [Top(g) EXCEPT !.pc = "regLockWait"]),
     sh |-> [sh EXCEPT !.regMutex.writer = me]]

StepRegLockWait(me, g, sh) ==
    [g |-> SetTop(g, [Top(g) EXCEPT !.pc = "regWrite"]), sh |-> sh]

\* RegisterFormatter: formatterRegistry[name] = f, the deferred Unlock(),
\* and the return of the formatter that called it.
StepRegWrite(me, g, sh) ==
    [g |-> Formatted(g, [err |-> NoErr, value |-> Top(g).val]),
     sh |-> [sh EXCEPT !.formatterRegistry =
                          (Top(g).ast[Top(g).idx].Formatters[Top(g).fi].Arg :> "userLen") @@ @,
                       !.regMutex.writer = "none"]]

\* PlaceholderNode.Eval after the formatters: the conditional, which calls
\* RenderTemplate on one branch with the args of the node, or fmt.Sprint.
\* Compared with the branch that was not selected passed to RenderTemplate.
ComparedOther(g, cond, c) ==
    IF c.err # NoErr THEN Fail(g, c.err)
    ELSE [g EXCEPT !.stack =
             Append(SubSeq(g.stack, 1, Len(g.stack) - 1), [Top(g) EXCEPT !.pc = "wait"])
             \o <<RenderFrame(IF c.ok THEN cond.FalseExpr ELSE cond.TrueExpr)>>]

\* Compared that returns "", nil when compareValues returns an error.
ComparedSilent(g, cond, c) ==
    IF c.err # NoErr THEN Fail(g, NoErr)
    ELSE [g EXCEPT !.stack =
             Append(SubSeq(g.stack, 1, Len(g.stack) - 1), [Top(g) EXCEPT !.pc = "wait"])
             \o <<RenderFrame(IF c.ok THEN cond.TrueExpr ELSE cond.FalseExpr)>>]

\* PlaceholderNode.Eval on the result c of compareValues.
Compared(g, cond, c) ==
    IF c.err # NoErr THEN Fail(g, c.err)
    ELSE [g EXCEPT !.stack =
             Append(SubSeq(g.stack, 1, Len(g.stack) - 1), [Top(g) EXCEPT !.pc = "wait"])
             \o <<RenderFrame(IF c.ok THEN cond.TrueExpr ELSE cond.FalseExpr)>>]

StepCond(me, g, sh) ==
    LET f == Top(g)
        node == f.ast[f.idx]
    IN  IF node.Cond.nil
        THEN [g |-> SetTop(g, [f EXCEPT !.buf = @ \o Sprint(f.val), !.idx = @ + 1,
                                        !.pc = "eval"]),
              sh |-> sh]
        ELSE [g |-> Compared(g, node.Cond,
                             compareValues(f.val, node.Cond.Op, node.Cond.TestValue)),
              sh |-> sh]

\* The next step of goroutine me, enabled when CanStep.
Step(me, g, sh) ==
    LET pc == Top(g).pc
    IN  CASE pc = "RLock" -> StepRLock(me, g, sh)
          [] pc = "lookup" -> StepLookup(me, g, sh)
          [] pc = "parse" -> StepParse(me, g, sh)
          [] pc = "Lock" -> StepLock(me, g, sh)
          [] pc = "lockWait" -> StepLockWait(me, g, sh)
          [] pc = "insert" -> StepInsert(me, g, sh)
          [] pc = "eval" -> StepEval(me, g, sh)
          [] pc = "fmtRLock" -> StepFmtRLock(me, g, sh)
          [] pc = "fmtRead" -> StepFmtRead(me, g, sh)
          [] pc = "fmtCall" -> StepFmtCall(me, g, sh)
          [] pc = "cond" -> StepCond(me, g, sh)
          [] pc = "regLock" -> StepRegLock(me, g, sh)
          [] pc = "regLockWait" -> StepRegLockWait(me, g, sh)
          [] pc = "regWrite" -> StepRegWrite(me, g, sh)

\* The goroutine run to its end with no other goroutine taking a step.
RECURSIVE Run(_, _)
Run(me, c) == IF c.g.done THEN c ELSE Run(me, Step(me, c.g, c.sh))

\* What a call run alone gave: the values returned, the goroutine at its
\* end, and the cache.
Outcome(c) == [out |-> c.g.out, err |-> c.g.err, g |-> c.g, cache |-> c.sh.astCache]

\* RenderTemplate(tpl, args) called with the cache and the registry given
\* and run alone: the goroutine at its end, and the cache.
RenderTemplate(tpl, args, reg, cache) ==
    Outcome(Run("main", [g |-> Goroutine(RenderFrame(tpl), args),
                         sh |-> Shared(cache, reg, FreeMutex, FreeMutex)]))

\* node.Eval(args) called with the cache and the registry given, run alone.
EvalPlaceholder(node, args, reg, cache) ==
    Outcome(Run("main", [g |-> Goroutine(EvalFrame(<<"PlaceholderNode">>, <<node>>), args),
                         sh |-> Shared(cache, reg, FreeMutex, FreeMutex)]))

---------------------------------------------------------------------------
(* Validator                                                               *)

\* The loop of checkBraces at rune i (from 1): err and the position reported
\* (from 0).
RECURSIVE braceLoop(_, _, _, _)
braceLoop(runes, i, depth, firstOpen) ==
    IF i > Len(runes)
    THEN IF depth # 0 /\ firstOpen >= 0
         THEN [err |-> "unclosed placeholder", pos |-> firstOpen]
         ELSE [err |-> NoErr, pos |-> -1]
    ELSE IF runes[i] = LBrace
    THEN braceLoop(runes, i + 1, depth + 1, IF depth = 0 THEN i - 1 ELSE firstOpen)
    ELSE IF runes[i] = RBrace
    THEN IF depth = 0 THEN [err |-> "extra closing brace", pos |-> i - 1]
         ELSE braceLoop(runes, i + 1, depth - 1, firstOpen)
    ELSE braceLoop(runes, i + 1, depth, firstOpen)

\* checkBraces(tpl)
checkBraces(tpl) == braceLoop(Runes(tpl), 1, 0, -1)

\* validateFormatters without the check of the argument of "number".
RECURSIVE validateFormattersNoArg(_, _, _)
validateFormattersNoArg(fs, i, reg) ==
    IF i > Len(fs) THEN NoErr
    ELSE LET name == TrimSpace(fs[i].Name)
         IN  IF name = <<>> THEN "empty formatter name"
             ELSE IF name \notin DOMAIN reg THEN "unknown formatter"
             ELSE validateFormattersNoArg(fs, i + 1, reg)

\* The checks of ValidateTemplate on the formatters of a node, from i on.
RECURSIVE validateFormatters(_, _, _)
validateFormatters(fs, i, reg) ==
    IF i > Len(fs) THEN NoErr
    ELSE LET name == TrimSpace(fs[i].Name)
         IN  IF name = <<>> THEN "empty formatter name"
             ELSE IF name \notin DOMAIN reg THEN "unknown formatter"
             ELSE IF name = S_number /\ fs[i].Arg # <<>> /\ ~AtoiOK(fs[i].Arg)
             THEN "invalid precision for number formatter"
             ELSE validateFormatters(fs, i + 1, reg)

\* The checks of ValidateTemplate on one placeholder node.
validateNode(ph, reg) ==
    IF TrimSpace(ph.Path) = <<>> THEN "placeholder has empty path"
    ELSE LET fe == validateFormatters(ph.Formatters, 1, reg)
         IN  IF fe # NoErr THEN fe
             ELSE IF ~ph.Cond.nil /\ ph.Cond.Op \notin {OpEq, OpGt, OpLt}
             THEN "unknown conditional operator"
             ELSE IF /\ ~ph.Cond.nil
                     /\ (TrimSpace(ph.Cond.TrueExpr) = <<>> \/ TrimSpace(ph.Cond.FalseExpr) = <<>>)
             THEN "invalid conditional expression"
             ELSE NoErr

\* validateNodes that reports a text node in which a brace is left.
RECURSIVE validateNodesStrict(_, _, _)
validateNodesStrict(ast, i, reg) ==
    IF i > Len(ast) THEN NoErr
    ELSE IF ~IsPlaceholder(ast[i])
    THEN IF Contains(ast[i].Text, "{") THEN "malformed placeholder"
         ELSE validateNodesStrict(ast, i + 1, reg)
    ELSE LET e == validateNode(ast[i], reg)
         IN  IF e # NoErr THEN e ELSE validateNodesStrict(ast, i + 1, reg)

\* The loop of ValidateTemplate over the nodes, from i on.
RECURSIVE validateNodes(_, _, _)
validateNodes(ast, i, reg) ==
    IF i > Len(ast) THEN NoErr
    ELSE IF ~IsPlaceholder(ast[i]) THEN validateNodes(ast, i + 1, reg)
    ELSE LET e == validateNode(ast[i], reg)
         IN  IF e # NoErr THEN e ELSE validateNodes(ast, i + 1, reg)

\* ValidateTemplate(tpl) with the registry reg: NoErr or the error's kind.
ValidateTemplate(tpl, reg) ==
    LET b == checkBraces(tpl)
    IN  IF b.err # NoErr THEN b.err ELSE validateNodes(ParseTemplate(tpl), 1, reg)

---------------------------------------------------------------------------
(* Inputs                                                                  *)

\* The bytes of the templates that are enumerated exhaustively.
Alphabet == {"{", "}", "|", "x", " ", ":", "C2", "A5"}

\* All strings over Alphabet of length n, and of length up to n.
RECURSIVE StringsOfLen(_)
StringsOfLen(n) ==
    IF n = 0 THEN {<<>>}
    ELSE {Append(w, b) : w \in StringsOfLen(n - 1), b \in Alphabet}

RECURSIVE StringsUpTo(_)
StringsUpTo(n) == IF n = 0 THEN {<<>>} ELSE StringsOfLen(n) \cup StringsUpTo(n - 1)

Enumerated == StringsUpTo(MaxTplLen)

\* Templates of the repository's tests and documentation, and one for each
\* way a placeholder can be built or refused.
Corpus ==
    << \* 1: plain text
      <<"p", "l", "a", "i", "n", " ", "t", "e", "x", "t">>,
       \* 2: {unclosed
      <<"{", "u", "n", "c", "l", "o", "s", "e", "d">>,
       \* 3: {count|eq:0?No items:{count} items}
      <<"{", "c", "o", "u", "n", "t", "|", "e", "q", ":", "0", "?", "N", "o", " ", "i", "t", "e", "m", "s", ":", "{", "c", "o", "u", "n", "t", "}", " ", "i", "t", "e", "m", "s", "}">>,
       \* 4: {c|gt:3?big:small}
      <<"{", "c", "|", "g", "t", ":", "3", "?", "b", "i", "g", ":", "s", "m", "a", "l", "l", "}">>,
       \* 5: {c|lt:3?small:{c}}
      <<"{", "c", "|", "l", "t", ":", "3", "?", "s", "m", "a", "l", "l", ":", "{", "c", "}", "}">>,
       \* 6: {c|eq:0?none:{m}}
      <<"{", "c", "|", "e", "q", ":", "0", "?", "n", "o", "n", "e", ":", "{", "m", "}", "}">>,
       \* 7: {c|eq:0?{m}:some}
      <<"{", "c", "|", "e", "q", ":", "0", "?", "{", "m", "}", ":", "s", "o", "m", "e", "}">>,
       \* 8: {c|eq:0?{x}:{m}}
      <<"{", "c", "|", "e", "q", ":", "0", "?", "{", "x", "}", ":", "{", "m", "}", "}">>,
       \* 9: {c|eq:abc?a:b}
      <<"{", "c", "|", "e", "q", ":", "a", "b", "c", "?", "a", ":", "b", "}">>,
       \* 10: {c|ne:0?a:b}
      <<"{", "c", "|", "n", "e", ":", "0", "?", "a", ":", "b", "}">>,
       \* 11: {x|eq:tom?yes:no}
      <<"{", "x", "|", "e", "q", ":", "t", "o", "m", "?", "y", "e", "s", ":", "n", "o", "}">>,
       \* 12: {x|gt:1?a:b}
      <<"{", "x", "|", "g", "t", ":", "1", "?", "a", ":", "b", "}">>,
       \* 13: {p|number:2|currency:(yen)}
      <<"{", "p", "|", "n", "u", "m", "b", "e", "r", ":", "2", "|", "c", "u", "r", "r", "e", "n", "c", "y", ":", "C2", "A5", "}">>,
       \* 14: {x|upper}
      <<"{", "x", "|", "u", "p", "p", "e", "r", "}">>,
       \* 15: {x|bogus}
      <<"{", "x", "|", "b", "o", "g", "u", "s", "}">>,
       \* 16: {x|bogus|upper}
      <<"{", "x", "|", "b", "o", "g", "u", "s", "|", "u", "p", "p", "e", "r", "}">>,
       \* 17: {x|fail|upper}
      <<"{", "x", "|", "f", "a", "i", "l", "|", "u", "p", "p", "e", "r", "}">>,
       \* 18: {x|upper|fail|bogus}
      <<"{", "x", "|", "u", "p", "p", "e", "r", "|", "f", "a", "i", "l", "|", "b", "o", "g", "u", "s", "}">>,
       \* 19: {x|len|number:1}
      <<"{", "x", "|", "l", "e", "n", "|", "n", "u", "m", "b", "e", "r", ":", "1", "}">>,
       \* 20: {x|len|gt:2?long:short}
      <<"{", "x", "|", "l", "e", "n", "|", "g", "t", ":", "2", "?", "l", "o", "n", "g", ":", "s", "h", "o", "r", "t", "}">>,
       \* 21: {user.name|title}
      <<"{", "u", "s", "e", "r", ".", "n", "a", "m", "e", "|", "t", "i", "t", "l", "e", "}">>,
       \* 22: {user.missing}
      <<"{", "u", "s", "e", "r", ".", "m", "i", "s", "s", "i", "n", "g", "}">>,
       \* 23: {user.secret}
      <<"{", "u", "s", "e", "r", ".", "s", "e", "c", "r", "e", "t", "}">>,
       \* 24: a{m}{c|eq:0?A:B}
      <<"a", "{", "m", "}", "{", "c", "|", "e", "q", ":", "0", "?", "A", ":", "B", "}">>,
       \* 25: {x}{m}z
      <<"{", "x", "}", "{", "m", "}", "z">>,
       \* 26: {x} {user.name}
      <<"{", "x", "}", " ", "{", "u", "s", "e", "r", ".", "n", "a", "m", "e", "}">>,
       \* 27: {|upper}
      <<"{", "|", "u", "p", "p", "e", "r", "}">>,
       \* 28: { |eq:0?a:b}
      <<"{", " ", "|", "e", "q", ":", "0", "?", "a", ":", "b", "}">>,
       \* 29: {}
      <<"{", "}">>,
       \* 30: {x|}
      <<"{", "x", "|", "}">>,
       \* 31: {x|eq?a:b}
      <<"{", "x", "|", "e", "q", "?", "a", ":", "b", "}">>,
       \* 32: {x|number:ab}
      <<"{", "x", "|", "n", "u", "m", "b", "e", "r", ":", "a", "b", "}">>,
       \* 33: {x|number:2}
      <<"{", "x", "|", "n", "u", "m", "b", "e", "r", ":", "2", "}">>,
       \* 34: {x|number:-1}
      <<"{", "x", "|", "n", "u", "m", "b", "e", "r", ":", "-", "1", "}">>,
       \* 35: {x|number:99999999999999999999}
      <<"{", "x", "|", "n", "u", "m", "b", "e", "r", ":", "9", "9", "9", "9", "9", "9", "9", "9", "9", "9", "9", "9", "9", "9", "9", "9", "9", "9", "9", "9", "}">>,
       \* 36: {x|eq:0?:b}
      <<"{", "x", "|", "e", "q", ":", "0", "?", ":", "b", "}">>,
       \* 37: {x|eq:0?a:}
      <<"{", "x", "|", "e", "q", ":", "0", "?", "a", ":", "}">>,
       \* 38: }{x|bogus}
      <<"}", "{", "x", "|", "b", "o", "g", "u", "s", "}">>,
       \* 39: {x|bogus}}
      <<"{", "x", "|", "b", "o", "g", "u", "s", "}", "}">>,
       \* 40: {{x}
      <<"{", "{", "x", "}">>,
       \* 41: {c|eq:0?none:{x|upper}}
      <<"{", "c", "|", "e", "q", ":", "0", "?", "n", "o", "n", "e", ":", "{", "x", "|", "u", "p", "p", "e", "r", "}", "}">>,
       \* 42: {t|eq:0?a:b}
      <<"{", "t", "|", "e", "q", ":", "0", "?", "a", ":", "b", "}">>,
       \* 43: {n|eq:0?a:b}
      <<"{", "n", "|", "e", "q", ":", "0", "?", "a", ":", "b", "}">>,
       \* 44: {p|eq:0?a:b}
      <<"{", "p", "|", "e", "q", ":", "0", "?", "a", ":", "b", "}">>,
       \* 45:  {count | eq:0?No items:{count} items}
      <<" ", "{", "c", "o", "u", "n", "t", " ", "|", " ", "e", "q", ":", "0", "?", "N", "o", " ", "i", "t", "e", "m", "s", ":", "{", "c", "o", "u", "n", "t", "}", " ", "i", "t", "e", "m", "s", "}">>,
       \* 46: {x|eq:0?a}
      <<"{", "x", "|", "e", "q", ":", "0", "?", "a", "}">>,
       \* 47: {x|eq:Tom?yes:no}
      <<"{", "x", "|", "e", "q", ":", "T", "o", "m", "?", "y", "e", "s", ":", "n", "o", "}">>,
       \* 48: {c|gt:3?{x|eq:tom?T:F}:small}
      <<"{", "c", "|", "g", "t", ":", "3", "?", "{", "x", "|", "e", "q", ":", "t", "o", "m", "?", "T", ":", "F", "}", ":", "s", "m", "a", "l", "l", "}">>,
       \* 49: {c|eq:0?\xc2\xc2\xc2\xc2\xc2\xc2:b}
      <<"{", "c", "|", "e", "q", ":", "0", "?", "C2", "C2", "C2", "C2", "C2", "C2", ":", "b", "}">>,
       \* 50: {x|reg:len|rend:{c}}
      <<"{", "x", "|", "r", "e", "g", ":", "l", "e", "n", "|", "r", "e", "n", "d", ":", "{", "c", "}", "}">>
    >>

CorpusSet == {Corpus[i] : i \in 1..Len(Corpus)}

K_x == <<"x">>
K_c == <<"c">>
K_p == <<"p">>
K_count == <<"c", "o", "u", "n", "t">>
K_user == <<"u", "s", "e", "r">>
K_name == <<"n", "a", "m", "e">>

S_tom == <<"t", "o", "m">>

\* The struct of TestRenderTemplate/RenderTemplate_Struct, with a field that
\* is not exported.
UserStruct ==
    StructV(<<Field(<<"D", "e", "t", "a", "i", "l">>,
                    StructV(<<Field(<<"N", "a", "m", "e">>, StrV(S_tom)),
                              Field(<<"H", "e", "i", "g", "h", "t">>, StrV(<<"1", "8", "0">>))>>)),
              Field(<<"C", "o", "u", "n", "t">>, Float64V(0, 1)),
              Field(<<"s", "e", "c", "r", "e", "t">>, StrV(<<"s">>))>>)

\* A struct with two fields whose names differ in case only.
TwoNames ==
    StructV(<<Field(<<"N", "a", "m", "e">>, StrV(<<"a">>)),
              Field(<<"N", "A", "M", "E">>, StrV(<<"b">>)),
              Field(<<"A", "g", "e">>, IntV(3))>>)

\* The argument bags (map[string]any) a call is made with.
ArgBags ==
    << MapV((K_x :> StrV(S_tom)) @@ (K_c :> IntV(0)) @@ (K_count :> IntV(0))
            @@ (K_p :> Float64V(12345678, 1000))
            @@ (K_user :> MapV((K_name :> StrV(<<"t", "o", "m", " ", "s", "m", "i", "t", "h">>))
                               @@ (<<"h", "i">> :> StrV(<<"h", "i">>))))),
       MapV((K_x :> IntV(5)) @@ (K_c :> Int64V(5)) @@ (K_count :> IntV(5))
            @@ (K_p :> StrV(<<"1", ",", "2", "3", "4", ".", "5">>))
            @@ (K_user :> PtrV(UserStruct))),
       MapV((K_x :> StructV(<<Field(<<"C", "o", "u", "n", "t">>, IntV(10))>>))
            @@ (K_c :> StrV(<<"0">>)) @@ (K_count :> Float32V(25, 10))
            @@ (K_p :> BoolV(TRUE))
            @@ (K_user :> TwoNames)
            @@ (<<"t">> :> TimeV(2024, 3, 9))
            @@ (<<"n">> :> NilV)
            @@ (<<"n", "p">> :> NilPtr("struct"))
            @@ (<<"{", "c", "o", "u", "n", "t">>
                  :> StructV(<<Field(<<"C", "o", "u", "n", "t">>, IntV(10))>>))),
       EmptyMap >>

\* The paths getValueByPath is called with.
Paths ==
    { K_x, K_c, <<"m">>, <<>>, <<".">>,
      <<"u", "s", "e", "r", ".", "n", "a", "m", "e">>,
      <<"u", "s", "e", "r", ".", "N", "a", "m", "e">>,
      <<"u", "s", "e", "r", ".", "a", "g", "e">>,
      <<"u", "s", "e", "r", ".", "d", "e", "t", "a", "i", "l", ".", "n", "a", "m", "e">>,
      <<"u", "s", "e", "r", ".", "D", "E", "T", "A", "I", "L", ".", "H", "e", "i", "g", "h", "t">>,
      <<"u", "s", "e", "r", ".", "c", "o", "u", "n", "t">>,
      <<"u", "s", "e", "r", ".", "s", "e", "c", "r", "e", "t">>,
      <<"u", "s", "e", "r", ".", "m", "i", "s", "s", "i", "n", "g">>,
      <<"u", "s", "e", "r", ".", "n", "a", "m", "e", ".", "x">>,
      <<"x", ".", "c", "o", "u", "n", "t">>,
      <<"c", ".", "x">>,
      <<"n", ".", "x">>,
      <<"n", "p", ".", "x">>,
      <<"t", ".", "x">> }

\* The registries a call can find: the built-in one, one with the caller's
\* formatters "fail" and "len" added, one with "upper" registered again.
Registries ==
    { BuiltinRegistry,
      (<<"f", "a", "i", "l">> :> "userFail") @@ (<<"l", "e", "n">> :> "userLen") @@ BuiltinRegistry,
      (S_upper :> "userFail") @@ BuiltinRegistry }

---------------------------------------------------------------------------
(* Bundle and Locale                                                       *)
(*                                                                         *)
(* The methods of a Bundle run under its lock b.mu from their first line   *)
(* to their return, so each is one step on the fields of the bundle.       *)

L_en == <<"e", "n">>

\* A MessageStore with no language, a Config.Fallbacks with no entry.
NoMessages == [l \in {} |-> <<>>]
NoFallbacks == [l \in {} |-> <<>>]

Config(defaultLang, fallbacks) == [DefaultLang |-> defaultLang, Fallbacks |-> fallbacks]

\* New(cfg): the config of the bundle; a nil Fallbacks is a map with no entry.
New(cfg) == IF cfg.DefaultLang = <<>> THEN [cfg EXCEPT !.DefaultLang = L_en] ELSE cfg

\* b.RegisterMessages(lang, msgs): the MessageStore after the merge.
RegisterMessages(store, lang, msgs) ==
    IF lang \in DOMAIN store
    THEN [store EXCEPT ![lang] = msgs @@ @]
    ELSE (lang :> msgs) @@ store

\* The chain when the default language is appended without comparing it
\* with lang.
LocaleChainNoDedup(cfg, lang) ==
    IF lang # <<>>
    THEN IF lang \in DOMAIN cfg.Fallbacks /\ Len(cfg.Fallbacks[lang]) > 0
         THEN cfg.Fallbacks[lang]
         ELSE <<lang, cfg.DefaultLang>>
    ELSE <<cfg.DefaultLang>>

\* b.Locale(lang): the chain of the Locale returned.
LocaleChain(cfg, lang) ==
    IF lang # <<>>
    THEN IF lang \in DOMAIN cfg.Fallbacks /\ Len(cfg.Fallbacks[lang]) > 0
         THEN cfg.Fallbacks[lang]
         ELSE <<lang>> \o (IF cfg.DefaultLang # <<>> /\ cfg.DefaultLang # lang
                           THEN <<cfg.DefaultLang>> ELSE <<>>)
    ELSE <<cfg.DefaultLang>>

\* A Locale: whether its bundle is not nil, and its langs.
Locale(cfg, lang) == [hasBundle |-> TRUE, langs |-> LocaleChain(cfg, lang)]

\* The zero value Locale{}.
ZeroLocale == [hasBundle |-> FALSE, langs |-> <<>>]

\* The loop of T: the first language of langs, from the i-th on, whose
\* messages have the key; 0 when none has.
RECURSIVE firstWithKey(_, _, _, _)
firstWithKey(store, langs, i, key) ==
    IF i > Len(langs) THEN 0
    ELSE IF langs[i] \in DOMAIN store /\ key \in DOMAIN store[langs[i]] THEN i
    ELSE firstWithKey(store, langs, i + 1, key)

\* What T returns for the text found, given what RenderTemplate gave on it:
\* text when err is not nil.  A panic of RenderTemplate goes through T.
rendered(text, r) ==
    [out |-> IF r.err = "panic" THEN <<>> ELSE IF r.err # NoErr THEN text ELSE r.out,
     err |-> IF r.err = "panic" THEN "panic" ELSE NoErr,
     cache |-> r.cache]

\* The text of the key in the i-th language of the chain.
textAt(store, l, i, key) == store[l.langs[i]][key]

\* T on the text of the i-th language of the chain, or on none when i = 0.
translate(store, l, i, key, args, reg, cache) ==
    IF i = 0 THEN [out |-> key, err |-> NoErr, cache |-> cache]
    ELSE rendered(textAt(store, l, i, key),
                  RenderTemplate(textAt(store, l, i, key), args, reg, cache))

\* l.T(key, args) with the messages, the registry and the cache given: the
\* string returned, "panic" as err when the call panics, and the cache.
T(store, l, key, args, reg, cache) ==
    IF ~l.hasBundle THEN [out |-> key, err |-> NoErr, cache |-> cache]
    ELSE translate(store, l, firstWithKey(store, l.langs, 1, key), key, args, reg, cache)

---------------------------------------------------------------------------
(* State                                                                   *)

VARIABLES
    astCache,           \* the AST cache: template -> TemplateAST
    formatterRegistry,  \* the formatter registry: name -> FormatterFunc
    cacheMutex,         \* the RWMutex of the cache
    regMutex,           \* the RWMutex of the registry
    gs,                 \* Spec: the goroutines that call RenderTemplate
    registrar,          \* Spec: the goroutine that calls RegisterFormatter
    trace,              \* Spec: what each goroutine did to the cache, over all its calls
    started,            \* Spec: the calls of RenderTemplate started so far
    messages,           \* SpecBundle: the MessageStore of the bundle
    config,             \* SpecBundle: the Config of the bundle
    locale,             \* SpecBundle: the Locale the caller holds
    input,              \* SpecPure: the template and the index of the bag
    op,                 \* SpecPure: the function called last
    res,                \* SpecPure: what it returned
    ncalls              \* SpecPure: the calls made so far

shared == <<astCache, formatterRegistry, cacheMutex, regMutex>>
conc == <<gs, registrar, trace, started>>
pure == <<input, op, res, ncalls>>
bundle == <<messages, config, locale>>
vars == <<shared, conc, pure, bundle>>

\* Calls of RenderTemplate made one after the other in a behaviour of SpecPure.
MaxSeqCalls == 2

Args == ArgBags[input.argsIx]

---------------------------------------------------------------------------
(* SpecPure: one goroutine calls a function of the package on a template   *)
(* and a bag chosen at the start; RenderTemplate it may call again.        *)

InitPure ==
    /\ \/ /\ input \in [tpl : Enumerated, argsIx : {1}]
          /\ formatterRegistry = BuiltinRegistry
       \/ /\ input \in [tpl : CorpusSet, argsIx : 1..Len(ArgBags)]
          /\ formatterRegistry \in Registries
    /\ astCache = EmptyCache
    /\ cacheMutex = FreeMutex
    /\ regMutex = FreeMutex
    /\ gs = <<>>
    /\ registrar = [pc |-> "done"]
    /\ trace = <<>>
    /\ started = 0
    /\ messages = NoMessages
    /\ config = New(Config(<<>>, NoFallbacks))
    /\ locale = ZeroLocale
    /\ op = "none"
    /\ res = [none |-> TRUE]
    /\ ncalls = 0

CallParseTemplate ==
    /\ ncalls = 0
    /\ op' = "ParseTemplate"
    /\ res' = [ast |-> ParseTemplate(input.tpl)]
    /\ ncalls' = ncalls + 1
    /\ UNCHANGED <<astCache, formatterRegistry, cacheMutex, regMutex, conc, bundle, input>>

\* parsePlaceholder on the template taken as the text between the braces.
CallParsePlaceholder ==
    /\ ncalls = 0
    /\ op' = "parsePlaceholder"
    /\ res' = parsePlaceholder(input.tpl)
    /\ ncalls' = ncalls + 1
    /\ UNCHANGED <<astCache, formatterRegistry, cacheMutex, regMutex, conc, bundle, input>>

CallRenderTemplate ==
    /\ ncalls < MaxSeqCalls
    /\ op \in {"none", "RenderTemplate"}
    /\ res' = RenderTemplate(input.tpl, Args, formatterRegistry, astCache)
    /\ astCache' = res'.cache
    /\ op' = "RenderTemplate"
    /\ ncalls' = ncalls + 1
    /\ UNCHANGED <<formatterRegistry, cacheMutex, regMutex, conc, bundle, input>>

CallValidateTemplate ==
    /\ ncalls = 0
    /\ op' = "ValidateTemplate"
    /\ res' = [err |-> ValidateTemplate(input.tpl, formatterRegistry)]
    /\ ncalls' = ncalls + 1
    /\ UNCHANGED <<astCache, formatterRegistry, cacheMutex, regMutex, conc, bundle, input>>

CallGetValueByPath ==
    /\ ncalls = 0
    /\ input.tpl = Corpus[1]
    /\ \E path \in Paths :
          res' = [path |-> path, r |-> getValueByPath(Args, path)]
    /\ op' = "getValueByPath"
    /\ ncalls' = ncalls + 1
    /\ UNCHANGED <<astCache, formatterRegistry, cacheMutex, regMutex, conc, bundle, input>>

\* The placeholder nodes of the template: those of its AST and, when the
\* template parses as the inside of a placeholder, that node.
NodesOf(tpl) ==
    LET ast == ParseTemplate(tpl)
        ph == parsePlaceholder(tpl)
    IN  {ast[i] : i \in {k \in 1..Len(ast) : IsPlaceholder(ast[k])}}
        \cup (IF ph.ok THEN {ph.node} ELSE {})

\* PlaceholderNode.Eval(args) on a node of the template.
CallEval ==
    /\ ncalls = 0
    /\ \E node \in NodesOf(input.tpl) :
          /\ res' = [node |-> node,
                     r |-> EvalPlaceholder(node, Args, formatterRegistry, astCache)]
          /\ astCache' = res'.r.cache
    /\ op' = "Eval"
    /\ ncalls' = ncalls + 1
    /\ UNCHANGED <<formatterRegistry, cacheMutex, regMutex, conc, bundle, input>>

NextPure ==
    \/ CallParseTemplate
    \/ CallParsePlaceholder
    \/ CallRenderTemplate
    \/ CallValidateTemplate
    \/ CallGetValueByPath
    \/ CallEval

SpecPure == InitPure /\ [][NextPure]_vars

---------------------------------------------------------------------------
(* Spec: goroutines call RenderTemplate at the same time, and one calls    *)
(* RegisterFormatter.  A step of a goroutine is a step of its top frame.   *)

Procs == {"g1", "g2"}

\* Calls of RenderTemplate started in a behaviour of Spec.
MaxRenders == 2

\* The templates and the bags of the calls.
ConcTemplates == {Corpus[3], Corpus[20]}

ConcArgs == {1, 2}

\* What the registrar registers: the formatter "len" of the templates.
RegName == <<"l", "e", "n">>

\* A goroutine that is in no call.
Idle == [Goroutine(RenderFrame(<<>>), EmptyMap) EXCEPT !.stack = <<>>, !.done = TRUE]

Init ==
    /\ astCache = EmptyCache
    /\ formatterRegistry = BuiltinRegistry
    /\ cacheMutex = FreeMutex
    /\ regMutex = FreeMutex
    /\ gs = [p \in Procs |-> Idle]
    /\ registrar = [pc |-> "idle"]
    /\ trace = [p \in Procs |-> <<>>]
    /\ started = 0
    /\ input = [tpl |-> <<>>, argsIx |-> 1]
    /\ messages = NoMessages
    /\ config = New(Config(<<>>, NoFallbacks))
    /\ locale = ZeroLocale
    /\ op = "none"
    /\ res = [none |-> TRUE]
    /\ ncalls = 0

Sh == Shared(astCache, formatterRegistry, cacheMutex, regMutex)

\* A call RenderTemplate(tpl, args) by a goroutine that is in none.
StartRender(p) ==
    /\ started < MaxRenders
    /\ gs[p].done
    /\ \E tpl \in ConcTemplates, ix \in ConcArgs :
          gs' = [gs EXCEPT ![p] = Goroutine(RenderFrame(tpl), ArgBags[ix])]
    /\ started' = started + 1
    /\ UNCHANGED <<shared, registrar, trace, pure, bundle>>

\* The step of goroutine p at pc, when it can be taken.
At(p, pc) == ~gs[p].done /\ Top(gs[p]).pc = pc /\ CanStep(gs[p], Sh)

\* The state after the step n of goroutine p, which it logs as ev.
Taken(p, n, ev) ==
    /\ gs' = [gs EXCEPT ![p] = n.g]
    /\ astCache' = n.sh.astCache
    /\ cacheMutex' = n.sh.cacheMutex
    /\ regMutex' = n.sh.regMutex
    /\ formatterRegistry' = n.sh.formatterRegistry
    /\ trace' = IF ev = "" THEN trace
                ELSE [trace EXCEPT ![p] = Append(@, [ev |-> ev, tpl |-> Top(gs[p]).tpl])]
    /\ UNCHANGED <<registrar, started, pure, bundle>>

CacheRLock(p) == At(p, "RLock") /\ Taken(p, StepRLock(p, gs[p], Sh), "")

\* What the lookup n found, by where it left the goroutine.
Found(n) == IF Top(n.g).pc = "parse" THEN "miss" ELSE "hit"

CacheLookup(p) ==
    /\ At(p, "lookup")
    /\ Taken(p, StepLookup(p, gs[p], Sh), Found(StepLookup(p, gs[p], Sh)))

Parse(p) == At(p, "parse") /\ Taken(p, StepParse(p, gs[p], Sh), "parse")

CacheLock(p) == At(p, "Lock") /\ Taken(p, StepLock(p, gs[p], Sh), "")

CacheLockWait(p) == At(p, "lockWait") /\ Taken(p, StepLockWait(p, gs[p], Sh), "")

CacheInsert(p) == At(p, "insert") /\ Taken(p, StepInsert(p, gs[p], Sh), "insert")

EvalNode(p) == At(p, "eval") /\ Taken(p, StepEval(p, gs[p], Sh), "")

FmtRLock(p) == At(p, "fmtRLock") /\ Taken(p, StepFmtRLock(p, gs[p], Sh), "")

FmtRead(p) == At(p, "fmtRead") /\ Taken(p, StepFmtRead(p, gs[p], Sh), "")

FmtCall(p) == At(p, "fmtCall") /\ Taken(p, StepFmtCall(p, gs[p], Sh), "")

Cond(p) == At(p, "cond") /\ Taken(p, StepCond(p, gs[p], Sh), "")

\* RegisterFormatter(name, f): regMutex.Lock(), its start and its end.
RegisterLock ==
    /\ registrar.pc = "idle"
    /\ regMutex.writer = "none"
    /\ regMutex' = [regMutex EXCEPT !.writer = "registrar"]
    /\ registrar' = [pc |-> "lockWait"]
    /\ UNCHANGED <<astCache, formatterRegistry, cacheMutex, gs, trace, started, pure, bundle>>

RegisterLockWait ==
    /\ registrar.pc = "lockWait"
    /\ regMutex.readers = {}
    /\ registrar' = [pc |-> "write"]
    /\ UNCHANGED <<shared, gs, trace, started, pure, bundle>>

\* RegisterFormatter: formatterRegistry[name] = f, and the deferred Unlock().
RegisterWrite ==
    /\ registrar.pc = "write"
    /\ formatterRegistry' = (RegName :> "userLen") @@ formatterRegistry
    /\ regMutex' = [regMutex EXCEPT !.writer = "none"]
    /\ registrar' = [pc |-> "done"]
    /\ UNCHANGED <<astCache, cacheMutex, gs, trace, started, pure, bundle>>

Next ==
    \/ \E p \in Procs : StartRender(p)
    \/ \E p \in Procs : CacheRLock(p)
    \/ \E p \in Procs : CacheLookup(p)
    \/ \E p \in Procs : Parse(p)
    \/ \E p \in Procs : CacheLock(p)
    \/ \E p \in Procs : CacheLockWait(p)
    \/ \E p \in Procs : CacheInsert(p)
    \/ \E p \in Procs : EvalNode(p)
    \/ \E p \in Procs : FmtRLock(p)
    \/ \E p \in Procs : FmtRead(p)
    \/ \E p \in Procs : FmtCall(p)
    \/ \E p \in Procs : Cond(p)
    \/ RegisterLock
    \/ RegisterLockWait
    \/ RegisterWrite

Spec == Init /\ [][Next]_vars

---------------------------------------------------------------------------
(* SpecLocks: the goroutines of Spec, with formatters of the caller that   *)
(* call RegisterFormatter and RenderTemplate.                              *)

\* The registry when the goroutines start: the built-in formatters, and
\* the two of the caller that use the engine.
LockRegistry ==
    (<<"r", "e", "g">> :> "userRegister") @@ (<<"r", "e", "n", "d">> :> "userRender")
    @@ BuiltinRegistry

\* "{x|reg:len|rend:{c}}": the first formatter registers "len", the second
\* renders "{c}".
EngineTemplate == Corpus[50]

\* The calls: the templates of Spec with each of the bags, and the template
\* whose formatters use the engine.
LockCalls ==
    {[tpl |-> t, ix |-> i] : t \in ConcTemplates, i \in ConcArgs}
    \cup {[tpl |-> EngineTemplate, ix |-> 1]}

InitLocks ==
    /\ astCache = EmptyCache
    /\ formatterRegistry = LockRegistry
    /\ cacheMutex = FreeMutex
    /\ regMutex = FreeMutex
    /\ gs = [p \in Procs |-> Idle]
    /\ registrar = [pc |-> "idle"]
    /\ trace = [p \in Procs |-> <<>>]
    /\ started = 0
    /\ input = [tpl |-> <<>>, argsIx |-> 1]
    /\ messages = NoMessages
    /\ config = New(Config(<<>>, NoFallbacks))
    /\ locale = ZeroLocale
    /\ op = "none"
    /\ res = [none |-> TRUE]
    /\ ncalls = 0

StartLockRender(p) ==
    /\ started < MaxRenders
    /\ gs[p].done
    /\ \E c \in LockCalls :
          gs' = [gs EXCEPT ![p] = Goroutine(RenderFrame(c.tpl), ArgBags[c.ix])]
    /\ started' = started + 1
    /\ UNCHANGED <<shared, registrar, trace, pure, bundle>>

FmtRegLock(p) == At(p, "regLock") /\ Taken(p, StepRegLock(p, gs[p], Sh), "")

FmtRegLockWait(p) == At(p, "regLockWait") /\ Taken(p, StepRegLockWait(p, gs[p], Sh), "")

FmtRegWrite(p) == At(p, "regWrite") /\ Taken(p, StepRegWrite(p, gs[p], Sh), "")

NextLocks ==
    \/ \E p \in Procs : StartLockRender(p)
    \/ \E p \in Procs : CacheRLock(p)
    \/ \E p \in Procs : CacheLookup(p)
    \/ \E p \in Procs : Parse(p)
    \/ \E p \in Procs : CacheLock(p)
    \/ \E p \in Procs : CacheLockWait(p)
    \/ \E p \in Procs : CacheInsert(p)
    \/ \E p \in Procs : EvalNode(p)
    \/ \E p \in Procs : FmtRLock(p)
    \/ \E p \in Procs : FmtRead(p)
    \/ \E p \in Procs : FmtCall(p)
    \/ \E p \in Procs : Cond(p)
    \/ \E p \in Procs : FmtRegLock(p)
    \/ \E p \in Procs : FmtRegLockWait(p)
    \/ \E p \in Procs : FmtRegWrite(p)
    \/ RegisterLock
    \/ RegisterLockWait
    \/ RegisterWrite

SpecLocks == InitLocks /\ [][NextLocks]_vars

---------------------------------------------------------------------------
(* SpecBundle: one caller builds a bundle with New, registers messages,    *)
(* takes locales and translates keys through them.                         *)

MaxRegisters == 2

L_zh == <<"z", "h">>
L_fr == <<"f", "r">>

\* The Config values handed to New.
Configs ==
    {Config(d, f) :
        d \in {<<>>, L_zh},
        f \in {NoFallbacks,
               (L_zh :> <<L_fr, L_en>>),
               (L_fr :> <<>>) @@ (L_en :> <<L_en, L_en>>)}}

\* The languages asked of Bundle.Locale, "" among them.
ReqLangs == {<<>>, L_en, L_zh, L_fr}

K_k == <<"k">>
K_j == <<"j">>
Keys == {K_k, K_j}

\* The maps handed to RegisterMessages: one with a text whose rendering
\* fails and a text whose rendering fails or, on a struct with an unexported
\* field, panics; one with a text that renders.
MsgSets ==
    {(K_k :> Corpus[22]) @@ (K_j :> Corpus[23]),
     (K_k :> Corpus[3])}

MsgLangs == {L_en, L_zh}

BundleArgs == 1..2

InitBundle ==
    /\ config \in {New(c) : c \in Configs}
    /\ messages = NoMessages
    /\ locale = ZeroLocale
    /\ astCache = EmptyCache
    /\ formatterRegistry = BuiltinRegistry
    /\ cacheMutex = FreeMutex
    /\ regMutex = FreeMutex
    /\ gs = <<>>
    /\ registrar = [pc |-> "done"]
    /\ trace = <<>>
    /\ started = 0
    /\ input = [tpl |-> <<>>, argsIx |-> 1]
    /\ op = "none"
    /\ res = [none |-> TRUE]
    /\ ncalls = 0

CallRegisterMessages ==
    /\ ncalls < MaxRegisters
    /\ \E lang \in MsgLangs, msgs \in MsgSets :
          /\ messages' = RegisterMessages(messages, lang, msgs)
          /\ res' = [lang |-> lang, msgs |-> msgs]
    /\ op' = "RegisterMessages"
    /\ ncalls' = ncalls + 1
    /\ UNCHANGED <<shared, conc, config, locale, input>>

CallLocale ==
    /\ \E lang \in ReqLangs :
          /\ locale' = Locale(config, lang)
          /\ res' = [lang |-> lang, l |-> locale']
    /\ op' = "Locale"
    /\ UNCHANGED <<shared, conc, messages, config, input, ncalls>>

CallT ==
    /\ \E key \in Keys, ix \in BundleArgs :
          res' = [key |-> key, argsIx |-> ix,
                  r |-> T(messages, locale, key, ArgBags[ix],
                          formatterRegistry, astCache)]
    /\ astCache' = res'.r.cache
    /\ op' = "T"
    /\ UNCHANGED <<formatterRegistry, cacheMutex, regMutex, conc, bundle, input, ncalls>>

NextBundle ==
    \/ CallRegisterMessages
    \/ CallLocale
    \/ CallT

SpecBundle == InitBundle /\ [][NextBundle]_vars

---------------------------------------------------------------------------
(* Properties                                                              *)

Range(f) == {f[i] : i \in DOMAIN f}

NoPlaceholders(ast) == \A i \in 1..Len(ast) : ~IsPlaceholder(ast[i])

\* C1: a template in whose lenient parse no span is a placeholder renders
\* as itself, with a nil error, whatever the args.
C1_LenientPreservesText ==
    (op = "RenderTemplate" /\ NoPlaceholders(ParseTemplate(input.tpl)))
        => (res.out = input.tpl /\ res.err = NoErr)

\* C2: every PlaceholderNode that ParseTemplate or parsePlaceholder builds
\* has a non-empty Path.
C2_PathNonEmpty ==
    /\ op = "ParseTemplate"
          => \A i \in 1..Len(res.ast) :
                IsPlaceholder(res.ast[i]) => res.ast[i].Path # <<>>
    /\ op = "parsePlaceholder" => (res.ok => res.node.Path # <<>>)

\* The value of a placeholder node after its formatters: the value its path
\* resolves to, put through the chain.
RECURSIVE Chain(_, _, _, _)
Chain(fs, i, v, reg) ==
    IF i > Len(fs) THEN [err |-> NoErr, value |-> v]
    ELSE LET r == applyRegisteredFormatter(reg, v, fs[i].Name, fs[i].Arg)
         IN  IF r.err # NoErr THEN r ELSE Chain(fs, i + 1, r.value, reg)

PostValue(node, args, reg) ==
    LET v == getValueByPath(args, node.Path)
    IN  IF v.outcome # "ok" THEN [err |-> v.outcome, value |-> NilV]
        ELSE Chain(node.Formatters, 1, v.value, reg)

\* Whether "value op test" holds of the numbers v and t, as fractions.
NumHolds(v, o, t) ==
    CASE o = OpEq -> v.n * t.d = t.n * v.d
      [] o = OpGt -> v.n * t.d > t.n * v.d
      [] o = OpLt -> v.n * t.d < t.n * v.d

\* C3: a placeholder with a conditional, a numeric value after the
\* formatters and a numeric test value evaluates to what RenderTemplate
\* gives on TrueExpr when "value op test" holds and on FalseExpr otherwise,
\* called with the args of the node; the example of the specification
\* renders "No items" for count 0 and "5 items" for count 5.
C3_NumericConditional ==
    /\ (op = "Eval" /\ ~res.node.Cond.nil) =>
          LET c == res.node.Cond
              pv == PostValue(res.node, Args, formatterRegistry)
              tv == ParseFloat(c.TestValue)
          IN  (pv.err = NoErr /\ IsNum(pv.value) /\ tv.ok /\ c.Op \in {OpEq, OpGt, OpLt}) =>
                 LET want == RenderTemplate(IF NumHolds(pv.value, c.Op, tv)
                                            THEN c.TrueExpr ELSE c.FalseExpr,
                                            Args, formatterRegistry, EmptyCache)
                 IN  res.r.out = want.out /\ res.r.err = want.err
    /\ (op = "RenderTemplate" /\ input.tpl = Corpus[3] /\ input.argsIx = 1)
          => (res.out = <<"N", "o", " ", "i", "t", "e", "m", "s">> /\ res.err = NoErr)
    /\ (op = "RenderTemplate" /\ input.tpl = Corpus[3] /\ input.argsIx = 2)
          => (res.out = <<"5", " ", "i", "t", "e", "m", "s">> /\ res.err = NoErr)

\* "{c|lt:3?small:{c}}" with c = 5: the false branch, rendered with the args.
C3_Witness ==
    /\ op = "Eval"
    /\ ~res.node.Cond.nil
    /\ res.node.Cond.Op = OpLt
    /\ IsNum(PostValue(res.node, Args, formatterRegistry).value)
    /\ res.r.err = NoErr
    /\ res.r.out = <<"5">>

\* C4: the evaluation of a placeholder with a conditional passes the
\* selected branch to RenderTemplate and nothing else: it renders, parses,
\* caches and fails as RenderTemplate on the selected branch does, and the
\* other branch is not rendered, parsed, evaluated or cached by it.
C4_ShortCircuit ==
    (op = "Eval" /\ ~res.node.Cond.nil) =>
       LET c == res.node.Cond
           pv == PostValue(res.node, Args, formatterRegistry)
           cmp == compareValues(pv.value, c.Op, c.TestValue)
       IN  (pv.err = NoErr /\ cmp.err = NoErr) =>
              LET sel == IF cmp.ok THEN c.TrueExpr ELSE c.FalseExpr
                  unsel == IF cmp.ok THEN c.FalseExpr ELSE c.TrueExpr
                  alone == RenderTemplate(sel, Args, formatterRegistry, EmptyCache)
                  g == res.r.g
              IN  /\ g.rendered = alone.g.rendered
                  /\ g.parsed = alone.g.parsed
                  /\ res.r.cache = alone.cache
                  /\ res.r.err = alone.err
                  /\ unsel \notin Range(alone.g.rendered) =>
                        /\ unsel \notin Range(g.rendered)
                        /\ unsel \notin Range(g.parsed)
                        /\ unsel \notin DOMAIN res.r.cache
                        /\ \A i \in 1..Len(g.evals) : g.evals[i].tpl # unsel

\* "{c|eq:0?none:{m}}" with c = 0 and no m: the branch not selected fails
\* when rendered, the evaluation does not.
C4_Witness ==
    /\ op = "Eval"
    /\ ~res.node.Cond.nil
    /\ res.r.err = NoErr
    /\ res.r.out = <<"n", "o", "n", "e">>
    /\ RenderTemplate(res.node.Cond.FalseExpr, Args, formatterRegistry, EmptyCache).err
          = "value not found"

\* C5: every key of the cache maps to the AST ParseTemplate gives on it; an
\* entry is never removed and never replaced by another AST, so an insert
\* for a key that has an entry leaves the cache as it was.
\* (Stated on the steps: the cache starts sound, a step keeps every entry
\* as it is, and an entry a step adds is the AST of its key.)
C5_CacheSound ==
    /\ \A k \in DOMAIN astCache : astCache[k] = ParseTemplate(k)
    /\ [][/\ \A k \in DOMAIN astCache :
                k \in DOMAIN astCache' /\ astCache'[k] = astCache[k]
          /\ \A k \in DOMAIN astCache' \ DOMAIN astCache :
                astCache'[k] = ParseTemplate(k)]_vars

\* Both goroutines missed the same template, parsed it and inserted it.
C5_Witness ==
    \E t \in DOMAIN astCache :
       \A p \in Procs : [ev |-> "insert", tpl |-> t] \in Range(trace[p])

\* The calls of ParseTemplate on t that goroutine p made.
ParseCount(p, t) ==
    Cardinality({i \in DOMAIN trace[p] : trace[p][i] = [ev |-> "parse", tpl |-> t]})

Traced == UNION {{trace[p][i].tpl : i \in DOMAIN trace[p]} : p \in Procs}

NodeResult(node) ==
    IF IsPlaceholder(node)
    THEN EvalPlaceholder(node, Args, formatterRegistry, EmptyCache)
    ELSE [out |-> node.Text, err |-> NoErr]

\* The first node of the AST that fails, 0 when none does.
FirstFailing(ast) ==
    LET failing == {i \in 1..Len(ast) : NodeResult(ast[i]).err # NoErr}
    IN  IF failing = {} THEN 0 ELSE CHOOSE i \in failing : \A j \in failing : i <= j

RECURSIVE Concat(_, _)
Concat(ast, i) == IF i > Len(ast) THEN <<>> ELSE NodeResult(ast[i]).out \o Concat(ast, i + 1)

\* The indexes of the nodes of template tpl in the order the goroutine
\* evaluated them.
EvalOrder(g, tpl) ==
    LET es == SelectSeq(g.evals, LAMBDA e : e.tpl = tpl)
    IN  [i \in 1..Len(es) |-> es[i].idx]

\* C7: RenderTemplate evaluates the nodes in order up to the first one that
\* fails; when none fails it returns their outputs joined, and when one does
\* it returns that node's error and the empty string; a placeholder whose
\* path does not resolve is a node that fails.
C7_AllOrNothing ==
    op = "RenderTemplate" =>
       LET ast == ParseTemplate(input.tpl)
           k == FirstFailing(ast)
           order == EvalOrder(res.g, input.tpl)
       IN  /\ res.err # NoErr => res.out = <<>>
           /\ k = 0 => /\ res.err = NoErr
                       /\ res.out = Concat(ast, 1)
                       /\ order = [i \in 1..Len(ast) |-> i]
           /\ k > 0 => /\ res.err = NodeResult(ast[k]).err
                       /\ order = [i \in 1..k |-> i]
           /\ \A i \in 1..Len(ast) :
                 (IsPlaceholder(ast[i])
                    /\ getValueByPath(Args, ast[i].Path).outcome = "notfound")
                    => res.err # NoErr

\* "a{m}{c|eq:0?A:B}" with no m: the text node is written to the buffer, the
\* second node fails, the third is not evaluated, and nothing is returned.
C7_Witness ==
    /\ op = "RenderTemplate"
    /\ res.err = "value not found"
    /\ Len(ParseTemplate(input.tpl)) = 3
    /\ ~IsPlaceholder(ParseTemplate(input.tpl)[1])
    /\ EvalOrder(res.g, input.tpl) = <<1, 2>>
    /\ res.out = <<>>

\* Whether the segments of a path, from the i-th on, can be followed from
\* cur: in a map by the key, in a struct (behind one pointer or none) by a
\* field whose name is the segment but for case.
RECURSIVE Followable(_, _, _)
Followable(cur, segs, i) ==
    IF i > Len(segs) THEN TRUE
    ELSE IF cur.t = "map"
    THEN segs[i] \in DOMAIN cur.m /\ Followable(cur.m[segs[i]], segs, i + 1)
    ELSE LET r == IF cur.t = "ptr" /\ ~cur.isNil THEN cur.elem ELSE cur
         IN  /\ r.t = "struct"
             /\ \E j \in 1..Len(r.fields) :
                   /\ EqualFold(r.fields[j].name, segs[i])
                   /\ Followable(r.fields[j].val, segs, i + 1)

\* C8: getValueByPath never panics, and finds a value exactly when every
\* segment of the path can be followed.
C8_ResolverTotal ==
    op = "getValueByPath" =>
       /\ res.r.outcome # "panic"
       /\ res.r.outcome = "ok" <=> Followable(Args, Split(res.path, "."), 1)

\* The calls of applyRegisteredFormatter that the chain fs makes from the
\* i-th formatter on with value v: one after the other, each on the value
\* the one before returned, none after one that fails.
RECURSIVE ExpectedCalls(_, _, _, _)
ExpectedCalls(fs, i, v, reg) ==
    IF i > Len(fs) THEN <<>>
    ELSE LET r == applyRegisteredFormatter(reg, v, fs[i].Name, fs[i].Arg)
         IN  <<[name |-> fs[i].Name, arg |-> fs[i].Arg, input |-> v]>>
             \o (IF r.err # NoErr THEN <<>> ELSE ExpectedCalls(fs, i + 1, r.value, reg))

\* C9: the formatters of a placeholder are applied in the order of the
\* template, the first to the value resolved and each other to what the one
\* before returned; the first that is not registered or fails ends the
\* evaluation with its error, and none after it is called.
C9_FormatterChain ==
    (op = "Eval" /\ getValueByPath(Args, res.node.Path).outcome = "ok") =>
       LET fs == res.node.Formatters
           v == getValueByPath(Args, res.node.Path).value
           exp == ExpectedCalls(fs, 1, v, formatterRegistry)
           post == Chain(fs, 1, v, formatterRegistry)
           calls == res.r.g.fcalls
       IN  /\ Len(calls) >= Len(exp)
           /\ SubSeq(calls, 1, Len(exp)) = exp
           /\ post.err = NoErr => Len(exp) = Len(fs)
           /\ post.err # NoErr => (res.r.err = post.err /\ calls = exp /\ res.r.out = <<>>)

\* "{x|upper|fail|bogus}" with "fail" registered: upper is applied, fail is
\* applied to its output and fails, bogus is never looked up.
C9_Witness ==
    /\ op = "Eval"
    /\ Len(res.node.Formatters) = 3
    /\ Len(res.r.g.fcalls) = 2
    /\ res.r.g.fcalls[2].input = StrV(<<"T", "O", "M">>)
    /\ res.r.err = "user formatter failed"

\* Whether the braces of s are balanced: no prefix has more '}' than '{',
\* and s has as many of the one as of the other.
BraceCount(s, ch, n) == Cardinality({i \in 1..n : s[i] = ch})

Balanced(s) ==
    /\ \A n \in 1..Len(s) : BraceCount(s, "}", n) <= BraceCount(s, "{", n)
    /\ BraceCount(s, "}", Len(s)) = BraceCount(s, "{", Len(s))

\* An optional sign and decimal digits.
IsIntegerLiteral(s) == Unsigned(s) # <<>> /\ AllDigits(Unsigned(s))

\* Whether a placeholder node has one of the faults ValidateTemplate looks
\* for; the arguments of "number" that are accepted are the integer literals,
\* or with atoi those that strconv.Atoi accepts.
Faulty(node, reg, atoi) ==
    \/ TrimSpace(node.Path) = <<>>
    \/ \E i \in 1..Len(node.Formatters) :
          \/ node.Formatters[i].Name \notin DOMAIN reg
          \/ /\ node.Formatters[i].Name = S_number
             /\ node.Formatters[i].Arg # <<>>
             /\ ~(IF atoi THEN AtoiOK(node.Formatters[i].Arg)
                  ELSE IsIntegerLiteral(node.Formatters[i].Arg))
    \/ /\ ~node.Cond.nil
       /\ \/ node.Cond.Op \notin {OpEq, OpGt, OpLt}
          \/ TrimSpace(node.Cond.TrueExpr) = <<>>
          \/ TrimSpace(node.Cond.FalseExpr) = <<>>

\* ValidateTemplate returns an error exactly when the braces are not
\* balanced or a placeholder node of the lenient parse is faulty, and an
\* error of the braces when they are not balanced.
ValidatesIff(atoi) ==
    op = "ValidateTemplate" =>
       LET ast == ParseTemplate(input.tpl)
       IN  /\ res.err # NoErr <=>
                 \/ ~Balanced(input.tpl)
                 \/ \E i \in 1..Len(ast) :
                       IsPlaceholder(ast[i]) /\ Faulty(ast[i], formatterRegistry, atoi)
           /\ ~Balanced(input.tpl)
                 => res.err \in {"unclosed placeholder", "extra closing brace"}

\* C10: ValidateTemplate returns an error exactly when the braces are not
\* balanced or a placeholder node has an empty path, a formatter that is not
\* registered, a "number" argument that is not an integer, an operator
\* outside eq, gt, lt, or an empty branch; the braces are checked first.
C10_ValidateIff == ValidatesIff(FALSE)

\* C10, amended: the same, with a "number" argument faulty when
\* strconv.Atoi rejects it: when it is not an optionally signed decimal
\* integer that fits the int type.
C10_ValidateIffAtoi == ValidatesIff(TRUE)

\* "}{x|bogus}": a stray brace and an unknown formatter, and the error is
\* the one of the braces.
C10_Witness ==
    /\ op = "ValidateTemplate"
    /\ res.err = "extra closing brace"
    /\ \E i \in 1..Len(ParseTemplate(input.tpl)) :
          /\ IsPlaceholder(ParseTemplate(input.tpl)[i])
          /\ Faulty(ParseTemplate(input.tpl)[i], formatterRegistry, TRUE)

---------------------------------------------------------------------------
(* Bundle and Locale properties, checked under SpecBundle                  *)

\* Whether the config has an override list for lang that is used.
HasOverride(cfg, lang) ==
    lang # <<>> /\ lang \in DOMAIN cfg.Fallbacks /\ Len(cfg.Fallbacks[lang]) > 0

NoDuplicates(seq) == \A i, j \in 1..Len(seq) : seq[i] = seq[j] => i = j

\* The chain as the claim words it.
ClaimedChain(cfg, lang) ==
    IF HasOverride(cfg, lang) THEN cfg.Fallbacks[lang]
    ELSE IF lang = <<>> THEN <<cfg.DefaultLang>>
    ELSE IF cfg.DefaultLang = lang THEN <<lang>>
    ELSE <<lang, cfg.DefaultLang>>

HasKey(store, langs, i, key) ==
    langs[i] \in DOMAIN store /\ key \in DOMAIN store[langs[i]]

\* The rendered text, or the raw text when rendering did not succeed.
RenderedOrRaw(text, r) == IF r.err = NoErr THEN r.out ELSE text

\* What the claim has T return for the key: the text of the first language
\* of the chain that has it, rendered or raw, or the key.
ClaimedT(store, l, key, args, reg) ==
    IF l.hasBundle /\ \E i \in 1..Len(l.langs) : HasKey(store, l.langs, i, key)
    THEN LET i == CHOOSE n \in 1..Len(l.langs) :
                      /\ HasKey(store, l.langs, n, key)
                      /\ \A m \in 1..(n - 1) : ~HasKey(store, l.langs, m, key)
         IN RenderedOrRaw(store[l.langs[i]][key],
                          RenderTemplate(store[l.langs[i]][key], args, reg, EmptyCache))
    ELSE key

\* C12: T returns the text of the first language of the chain that has the
\* key in the messages as they are at the call, rendered, or raw when the
\* rendering fails; it returns the key when no language of the chain has it
\* or the locale has no bundle; a render failure gives neither an error nor
\* an empty string.
C12_Translate ==
    op = "T" =>
        /\ res.r.err = NoErr
        /\ res.r.out = ClaimedT(messages, locale, res.key, ArgBags[res.argsIx],
                                formatterRegistry)

---------------------------------------------------------------------------
(* Conditionals on values that are not numbers, checked under SpecPure     *)

\* The evaluation failed with err before any branch was rendered.
FailedBeforeBranch(r, err) ==
    r.err = err /\ r.out = <<>> /\ r.g.rendered = <<>> /\ r.g.parsed = <<>>

\* The evaluation gave what RenderTemplate gives on the branch.
AsBranch(r, want) == r.out = want.out /\ r.err = want.err

---------------------------------------------------------------------------
(* A formatter inside a branch of a conditional, checked under SpecPure    *)

\* "{c|eq:0?none:{x|upper}}"
PipedBranch == Corpus[41]

\* The node the claim has ParseTemplate build for PipedBranch: path c, no
\* formatter, the conditional eq:0 with the branches "none" and "{x|upper}".
PipedBranchNode ==
    PlaceholderNode(K_c, <<>>,
                    Conditional(OpEq, <<"0">>, <<"n", "o", "n", "e">>, Corpus[14]))

\* C14: a "|" inside a brace pair of a branch of a conditional does not
\* split the placeholder: "{c|eq:0?none:{x|upper}}" parses to one
\* placeholder with the conditional whose false branch is "{x|upper}" and
\* with no formatter, and it renders without an error, "none" for c = 0.
C14_PipeInBranch ==
    /\ (op = "ParseTemplate" /\ input.tpl = PipedBranch)
          => res.ast = <<PipedBranchNode>>
    /\ (op = "RenderTemplate" /\ input.tpl = PipedBranch /\ input.argsIx = 1
          /\ formatterRegistry = BuiltinRegistry)
          => (res.err = NoErr /\ res.out = <<"n", "o", "n", "e">>)

---------------------------------------------------------------------------
(* The precision of the number formatter, checked under SpecPure           *)

\* The arguments the claim has "number" accept: none, or an integer that is
\* not negative.
NonNegativePrecision(arg) == arg = <<>> \/ (IsIntegerLiteral(arg) /\ ~IsNeg(arg))

\* Whether a formatter of the node is "number" with another argument.
HasBadPrecision(node) ==
    \E i \in 1..Len(node.Formatters) :
        /\ node.Formatters[i].Name = S_number
        /\ ~NonNegativePrecision(node.Formatters[i].Arg)

\* C15: the number formatter takes as precision the empty string or an
\* integer that is not negative; with every other argument, "-1" and "ab"
\* among them, the evaluation fails with an error and gives no output, and
\* ValidateTemplate returns an error for the template.
C15_NumberPrecision ==
    /\ (op = "Eval" /\ formatterRegistry[S_number] = "number"
          /\ HasBadPrecision(res.node))
          => (res.r.err # NoErr /\ res.r.out = <<>>)
    /\ (op = "ValidateTemplate" /\ formatterRegistry[S_number] = "number"
          /\ \E i \in 1..Len(ParseTemplate(input.tpl)) :
                /\ IsPlaceholder(ParseTemplate(input.tpl)[i])
                /\ HasBadPrecision(ParseTemplate(input.tpl)[i]))
          => res.err # NoErr

---------------------------------------------------------------------------
(* An expression with its braces, checked under SpecPure                   *)

\* " {count | eq:0?No items:{count} items}" of TestParsePlaceholder.
BracedExpr == Corpus[45]

BracedPath == <<"{", "c", "o", "u", "n", "t">>

\* parsePlaceholder takes the expression with its braces: "{count" is the
\* path of the node, which has the conditional and no formatter.
AcceptsBraced ==
    (op = "parsePlaceholder" /\ input.tpl = BracedExpr) =>
        /\ res.ok
        /\ res.node.Path = BracedPath
        /\ res.node.Formatters = <<>>
        /\ ~res.node.Cond.nil

\* The state after Eval of a node with a conditional whose path resolves
\* to a struct.
EvalOnStruct ==
    /\ op = "Eval"
    /\ ~res.node.Cond.nil
    /\ PostValue(res.node, Args, formatterRegistry).err = NoErr
    /\ PostValue(res.node, Args, formatterRegistry).value.t = "struct"

---------------------------------------------------------------------------
(* Termination of RenderTemplate, checked under SpecPure                   *)

\* len([]rune(s)): the length ParseTemplate scans.
RuneLen(s) == Len(Runes(s))

\* The conditionals of the placeholder nodes of the template.
CondsOf(tpl) ==
    LET ast == ParseTemplate(tpl)
    IN  {ast[i].Cond : i \in {k \in 1..Len(ast) : IsPlaceholder(ast[k]) /\ ~ast[k].Cond.nil}}

\* The branch has fewer runes than the template and is not the template.
Shorter(branch, tpl) == RuneLen(branch) < RuneLen(tpl) /\ branch # tpl

\* The depth of the calls of RenderTemplate that tpl can lead to: 0 when
\* no node of tpl has a conditional.
RECURSIVE RenderDepth(_)
RenderDepthOver(branches) ==
    IF branches = {} THEN 0
    ELSE 1 + (CHOOSE d \in {RenderDepth(b) : b \in branches} :
                 \A b \in branches : RenderDepth(b) <= d)

RenderDepth(tpl) ==
    RenderDepthOver({c.TrueExpr : c \in CondsOf(tpl)} \cup {c.FalseExpr : c \in CondsOf(tpl)})

\* C17: RenderTemplate returns for every template, with formatters that do
\* not call it: each branch a call hands to RenderTemplate is cut out of
\* the text between the braces the parser scanned and has fewer runes than
\* the template of the call, so the depth of the calls is at most the
\* length of the template and no call renders its own template again.
\* Lengths are those of the parser, in runes: a byte that is no valid
\* UTF-8 is one rune of the template and the three bytes of U+FFFD in the
\* branch.
C17_Terminates ==
    op = "RenderTemplate" =>
        /\ res.g.done
        /\ res.g.stack = <<>>
        /\ \A i \in 1..Len(res.g.rendered) :
              \A c \in CondsOf(res.g.rendered[i]) :
                 /\ Shorter(c.TrueExpr, res.g.rendered[i])
                 /\ Shorter(c.FalseExpr, res.g.rendered[i])
        /\ RenderDepth(input.tpl) <= RuneLen(input.tpl)
        /\ \A i \in 2..Len(res.g.rendered) : res.g.rendered[i] # input.tpl

\* "{count|eq:0?No items:{count} items}" with count = 5: the call for the
\* branch "{count} items" was made and returned.
C17_Witness ==
    /\ op = "RenderTemplate"
    /\ input.tpl = Corpus[3]
    /\ res.g.done
    /\ Len(res.g.rendered) = 2
    /\ res.g.rendered[2] = ParseTemplate(Corpus[3])[1].Cond.FalseExpr
    /\ RenderDepth(input.tpl) = 1
    /\ res.out = <<"5", " ", "i", "t", "e", "m", "s">>

---------------------------------------------------------------------------
(* The locks of the engine, checked under SpecLocks                        *)

\* Where goroutine p is: the pc of its top frame, "none" when it is in no
\* call.
PcOf(p) == IF gs[p].done THEN "none" ELSE Top(gs[p]).pc

\* Goroutine p holds cacheMutex, for reading or for writing.
HoldsCache(p) ==
    p \in cacheMutex.readers \/ (cacheMutex.writer = p /\ PcOf(p) = "insert")

\* Goroutine p holds regMutex, for reading or for writing.
HoldsReg(p) ==
    p \in regMutex.readers \/ (regMutex.writer = p /\ PcOf(p) = "regWrite")

\* A call is under way.
Busy == (\E p \in Procs : ~gs[p].done) \/ registrar.pc \in {"lockWait", "write"}

\* Some goroutine that is in a call can take its next step.
CanMove ==
    \/ \E p \in Procs : CanStep(gs[p], Sh)
    \/ registrar.pc = "lockWait" /\ regMutex.readers = {}
    \/ registrar.pc = "write"

\* C18: a goroutine holds cacheMutex only at the lookup and at the insert
\* of RenderTemplate, not while it parses or evaluates, and regMutex only
\* at the read of the registry, not in the formatter it calls (nor, in
\* RegisterFormatter, outside the write); it never holds or waits for one
\* of them while it holds the other; and with nested calls for branches,
\* formatters that call RegisterFormatter and RenderTemplate, and
\* registrations going on, some goroutine can always go on.
C18_NoLockAcrossEval ==
    /\ \A p \in Procs :
          /\ p \in cacheMutex.readers => PcOf(p) = "lookup"
          /\ cacheMutex.writer = p => PcOf(p) \in {"lockWait", "insert"}
          /\ p \in regMutex.readers => PcOf(p) = "fmtRead"
          /\ regMutex.writer = p => PcOf(p) \in {"regLockWait", "regWrite"}
          /\ PcOf(p) \in {"parse", "eval", "fmtCall", "fmtWait", "cond", "wait"}
                => (~HoldsCache(p) /\ ~HoldsReg(p))
          /\ ~(HoldsCache(p) /\ HoldsReg(p))
          /\ HoldsCache(p) => PcOf(p) \notin {"fmtRLock", "regLock", "regLockWait"}
          /\ HoldsReg(p) => PcOf(p) \notin {"RLock", "Lock", "lockWait"}
    /\ \A r \in cacheMutex.readers : r \in Procs
    /\ \A r \in regMutex.readers : r \in Procs
    /\ regMutex.writer = "registrar" => registrar.pc \in {"lockWait", "write"}
    /\ Busy => CanMove

\* One goroutine is in the RenderTemplate call its formatter made and
\* holds cacheMutex for the insert, while the formatter of the other is in
\* RegisterFormatter and holds regMutex.
C18_Witness ==
    \E p, q \in Procs :
        /\ p # q
        /\ Len(gs[p].stack) = 2
        /\ gs[p].stack[1].pc = "fmtWait"
        /\ PcOf(p) = "insert"
        /\ HoldsCache(p)
        /\ PcOf(q) = "regWrite"
        /\ HoldsReg(q)

---------------------------------------------------------------------------
(* Spans that parsePlaceholder rejects, checked under SpecPure             *)

\* The text between the first and the last byte of the template.
Inner(tpl) == SubSeq(tpl, 2, Len(tpl) - 1)

\* The template is one pair of braces around a text without braces that
\* parsePlaceholder rejects.
RejectedSpan(tpl) ==
    /\ Len(tpl) >= 2
    /\ tpl[1] = "{"
    /\ tpl[Len(tpl)] = "}"
    /\ ~Contains(Inner(tpl), "{")
    /\ ~Contains(Inner(tpl), "}")
    /\ ~parsePlaceholder(RunesToString(Runes(Inner(tpl)))).ok

\* C19: for a span with balanced braces that parsePlaceholder rejects
\* ("{}", "{x|}", "{x|eq?a:b}", "{x|eq:0?a}"), the lenient parse gives one
\* TextNode with the span, ValidateTemplate returns nil, and RenderTemplate
\* returns the span as text (as the parser read it) with a nil error.
C19_RejectedSpanValidates ==
    /\ \A i \in {29, 30, 31, 46} : RejectedSpan(Corpus[i])
    /\ RejectedSpan(input.tpl) =>
          /\ op = "ParseTemplate"
                => res.ast = <<TextNode(RunesToString(Runes(input.tpl)))>>
          /\ op = "ValidateTemplate" => res.err = NoErr
          /\ op = "RenderTemplate"
                => (res.out = RunesToString(Runes(input.tpl)) /\ res.err = NoErr)
          /\ (op = "RenderTemplate" /\ input.tpl \in CorpusSet) => res.out = input.tpl

\* ValidateTemplate("{x|eq?a:b}") returned nil.
C19_Witness ==
    /\ op = "ValidateTemplate"
    /\ input.tpl = Corpus[31]
    /\ RejectedSpan(input.tpl)
    /\ res.err = NoErr
    /\ ParseTemplate(input.tpl) = <<TextNode(Corpus[31])>>

====
